---- MODULE Spec2Model ----
(***************************************************************************)
(* Stock scoring and sentiment aggregation engine.                         *)
(*                                                                         *)
(*   CompositeAnalyzer.analyze      services/analyzers/composite_analyzer  *)
(*   LLMNewsAnalyzer                services/llm_analyzer                  *)
(*                                                                         *)
(* Python floats are modelled as exact rationals <<n, d>> in lowest terms  *)
(* with d > 0, so 0.5 is <<1, 2>> and a weighted mean is computed without  *)
(* rounding.                                                               *)
(***************************************************************************)
EXTENDS Integers, Sequences, FiniteSets, TLC

\* ------------------------------------------------------------- bounds
\* most analyzers a composite is built with
MaxAnalyzers == 2
\* analyzer weights are drawn from -1 .. MaxWeight
MaxWeight == 2
\* most articles handed to the keyword analysis
MaxArticles == 3

\* ---------------------------------------------------------- rationals
Abs(n) == IF n < 0 THEN 0 - n ELSE n

RECURSIVE GCD(_, _)
GCD(a, b) == IF b = 0 THEN a ELSE GCD(b, a % b)

\* the rational n/d (d # 0) in lowest terms with a positive denominator
R(n, d) ==
    LET s == IF d < 0 THEN 0 - 1 ELSE 1
        g == GCD(Abs(n), Abs(d))
    IN  <<(s * n) \div g, (s * d) \div g>>

RZero == <<0, 1>>
ROne == <<1, 1>>
RHalf == <<1, 2>>

RAdd(a, b) == R(a[1] * b[2] + b[1] * a[2], a[2] * b[2])
RSub(a, b) == R(a[1] * b[2] - b[1] * a[2], a[2] * b[2])
RMul(a, b) == R(a[1] * b[1], a[2] * b[2])
RDiv(a, b) == R(a[1] * b[2], a[2] * b[1])
RLt(a, b) == a[1] * b[2] < b[1] * a[2]
RLe(a, b) == a[1] * b[2] <= b[1] * a[2]
RAbs(a) == <<Abs(a[1]), a[2]>>
RMin(a, b) == IF RLe(a, b) THEN a ELSE b
RMax(a, b) == IF RLe(a, b) THEN b ELSE a
RInt(n) == <<n, 1>>
InUnit(a) == RLe(RZero, a) /\ RLe(a, ROne)

\* sum(seq) of a sequence of rationals
RECURSIVE RSum(_)
RSum(seq) == IF seq = <<>> THEN RZero ELSE RAdd(Head(seq), RSum(Tail(seq)))

\* Python None, and any other value that is not a number
None == <<>>
IsNum(x) == x # None

\* ------------------------------------------------- composite analyzer
VARIABLES
    analyzers,            \* self.analyzers: <<[name, weight, outcome]>>
    c_pc,                 \* position in CompositeAnalyzer.analyze
    c_idx,                \* index of the analyzer the loop is at
    weighted_score,
    weighted_confidence,
    total_weight,
    all_reasons,
    c_all_articles,       \* all_articles of CompositeAnalyzer.analyze
    c_result,             \* the dict analyze returned, or None
    c_prev,               \* the result of the analysis before reweighting
    c_doubled             \* index of the analyzer whose weight was doubled, or 0

cvars == <<analyzers, c_pc, c_idx, weighted_score, weighted_confidence,
           total_weight, all_reasons, c_all_articles, c_result, c_prev,
           c_doubled>>

\* ------------------------------------------------- LLM news analyzer state
VARIABLES
    l_keys,               \* the providers whose API key is set
    l_provider,           \* self.provider
    l_articles,           \* the articles analyze_sentiment_llm is called with
    l_pc,                 \* position in analyze_sentiment_llm
    providers,            \* the provider names in the order they are tried
    l_idx,                \* index of the provider the loop is at
    successful_results,
    successful_providers,
    l_answers,            \* the JSON answers of the providers that succeeded
    l_calls,              \* the providers whose try-method was invoked, in order
    l_result              \* the dict analyze_sentiment_llm returned

lvars == <<l_keys, l_provider, l_articles, l_pc, providers, l_idx,
           successful_results, successful_providers, l_answers, l_calls,
           l_result>>

\* ------------------------------------------------------ news fetcher state
VARIABLES
    n_keys,               \* which of newsapi_key, alphavantage_key are set
    n_related,            \* include_related_market
    n_pc,                 \* position in fetch_all_sources
    n_clock,              \* datetime.now(), in ticks
    all_articles,
    n_failed,             \* the sources whose call failed
    n_intact,             \* what the sources that did not fail returned, concatenated
    n_keywords,           \* the related-market keywords of the stock's sector
    unique_articles,      \* the list fetch_all_sources returned
    n_order,              \* the output, in the order it is deduplicated again
    n_again               \* what the second dedup pass kept

nvars == <<n_keys, n_related, n_pc, n_clock, all_articles, n_failed, n_intact,
           n_keywords, unique_articles, n_order, n_again>>

\* ------------------------------------------- create_recommendation state
VARIABLES
    r_pc,                 \* "idle", "start", "analyzed", "done"
    r_name,               \* self.name
    r_composite,          \* whether self is a CompositeAnalyzer
    r_price,              \* stock.current_price
    analysis_result,      \* the dict handed to create_recommendation
    recommendation        \* the Recommendation returned

rvars == <<r_pc, r_name, r_composite, r_price, analysis_result, recommendation>>

\* ------------------------------------------- period-based analyzer state
VARIABLES
    p_pc,                     \* "idle", "start", "periods", "consensus", "normalize", "done"
    p_idx,                    \* position in self.periods
    p_score,                  \* score
    p_confidence,             \* confidence
    p_reasons,                \* reasons
    period_recommendations,
    p_total_weight,           \* total_weight
    p_weighted_score,         \* weighted_score
    p_failures,               \* the upstream calls that raised
    p_result                  \* the dict returned

pvars == <<p_pc, p_idx, p_score, p_confidence, p_reasons, period_recommendations,
           p_total_weight, p_weighted_score, p_failures, p_result>>

vars == <<cvars, lvars, nvars, rvars, pvars>>

\* constants.py is not among the sources: the neutral defaults of the
\* composite are the midpoint of the 0..1 scale.
COMPOSITE_DEFAULT_SCORE == RHalf
COMPOSITE_DEFAULT_CONFIDENCE == RHalf
DEFAULT_NO_ANALYZERS_REASONING == "No analyzers configured"

AnalyzerNames == <<"Price Analysis", "Volume Analysis", "News Analysis", "Momentum Analysis">>

ScoreValues == {RZero, RHalf, ROne}
ConfidenceValues == {RHalf, ROne}
WeightValues == {RInt(w) : w \in (0 - 1) .. MaxWeight}

\* What analyzer.analyze(stock) does: it raises, or it returns a dict whose
\* score and confidence are numbers or, for a faulty analyzer, not numbers.
Raising ==
    {[raises |-> TRUE, score |-> None, confidence |-> None, text |-> "boom",
      articles |-> <<>>]}
Returning ==
    {[raises |-> FALSE, score |-> s, confidence |-> c, text |-> "ok",
      articles |-> <<>>] :
        s \in ScoreValues, c \in ConfidenceValues}
Faulty ==
    {[raises |-> FALSE, score |-> s, confidence |-> None, text |-> "ok",
      articles |-> <<>>] :
        s \in ScoreValues \cup {None}}
Outcomes == Raising \cup Returning \cup Faulty

\* the analyzers a StockAnalyzer can hand to CompositeAnalyzer
Configs(outcomes) ==
    UNION {[1 .. n -> [weight : WeightValues, outcome : outcomes]] : n \in 0 .. MaxAnalyzers}

AnalyzerName(i) == AnalyzerNames[((i - 1) % Len(AnalyzerNames)) + 1]

\* str(e) of the TypeError of `x * weight` for a non-number x
TypeErrorText == "unsupported operand type(s) for *"

\* LoopBody with a raising analyzer still counted: its weight is added and it
\* contributes the neutral defaults.
LoopBody_CountsRaising(acc, i) ==
    LET a == analyzers[i]
        o == a.outcome
        name == AnalyzerName(i)
        collected == acc.articles \o o.articles
        err(msg) == Append(acc.reasons, name \o ": Error - " \o msg)
    IN  IF o.raises
        THEN [ws |-> RAdd(acc.ws, RMul(COMPOSITE_DEFAULT_SCORE, a.weight)),
              wc |-> RAdd(acc.wc, RMul(COMPOSITE_DEFAULT_CONFIDENCE, a.weight)),
              tw |-> RAdd(acc.tw, a.weight),
              articles |-> acc.articles,
              reasons |-> err(o.text)]
        ELSE IF ~IsNum(o.score)
        THEN [acc EXCEPT !.articles = collected, !.reasons = err(TypeErrorText)]
        ELSE IF ~IsNum(o.confidence)
        THEN [acc EXCEPT !.ws = RAdd(acc.ws, RMul(o.score, a.weight)),
                         !.articles = collected,
                         !.reasons = err(TypeErrorText)]
        ELSE [ws |-> RAdd(acc.ws, RMul(o.score, a.weight)),
              wc |-> RAdd(acc.wc, RMul(o.confidence, a.weight)),
              tw |-> RAdd(acc.tw, a.weight),
              articles |-> collected,
              reasons |-> Append(acc.reasons, name \o ": " \o o.text)]

\* LoopBody with the total counting analyzers instead of adding their weights
LoopBody_UnitWeight(acc, i) ==
    LET a == analyzers[i]
        o == a.outcome
        name == AnalyzerName(i)
        collected == acc.articles \o o.articles
        err(msg) == Append(acc.reasons, name \o ": Error - " \o msg)
    IN  IF o.raises
        THEN [acc EXCEPT !.reasons = err(o.text)]
        ELSE IF ~IsNum(o.score)
        THEN [acc EXCEPT !.articles = collected, !.reasons = err(TypeErrorText)]
        ELSE IF ~IsNum(o.confidence)
        THEN [acc EXCEPT !.ws = RAdd(acc.ws, RMul(o.score, a.weight)),
                         !.articles = collected,
                         !.reasons = err(TypeErrorText)]
        ELSE [ws |-> RAdd(acc.ws, RMul(o.score, a.weight)),
              wc |-> RAdd(acc.wc, RMul(o.confidence, a.weight)),
              tw |-> RAdd(acc.tw, ROne),
              articles |-> collected,
              reasons |-> Append(acc.reasons, name \o ": " \o o.text)]

\* One pass of the loop body (composite_analyzer.py 42-64) over analyzer i,
\* from accumulators acc = [ws, wc, tw, reasons].
LoopBody(acc, i) ==
    LET a == analyzers[i]
        o == a.outcome
        name == AnalyzerName(i)
        collected == acc.articles \o o.articles
        err(msg) == Append(acc.reasons, name \o ": Error - " \o msg)
    IN  IF o.raises
        THEN [acc EXCEPT !.reasons = err(o.text)]
        ELSE IF ~IsNum(o.score)
        THEN [acc EXCEPT !.articles = collected, !.reasons = err(TypeErrorText)]
        ELSE IF ~IsNum(o.confidence)
        THEN [acc EXCEPT !.ws = RAdd(acc.ws, RMul(o.score, a.weight)),
                         !.articles = collected,
                         !.reasons = err(TypeErrorText)]
        ELSE [ws |-> RAdd(acc.ws, RMul(o.score, a.weight)),
              wc |-> RAdd(acc.wc, RMul(o.confidence, a.weight)),
              tw |-> RAdd(acc.tw, a.weight),
              articles |-> collected,
              reasons |-> Append(acc.reasons, name \o ": " \o o.text)]

RECURSIVE Join(_, _)
Join(segs, sep) ==
    IF segs = <<>> THEN ""
    ELSE IF Len(segs) = 1 THEN segs[1]
    ELSE segs[1] \o sep \o Join(Tail(segs), sep)

\* composite_analyzer.py 66-72
FinalScore(ws, tw) ==
    IF RLt(RZero, tw) THEN RDiv(ws, tw) ELSE COMPOSITE_DEFAULT_SCORE
FinalConfidence(wc, tw) ==
    IF RLt(RZero, tw) THEN RDiv(wc, tw) ELSE COMPOSITE_DEFAULT_CONFIDENCE

\* ---------------------------------------------- articles in the composite
\* The title, url, source and summary of an article are strings, here the
\* sequences of their characters.
LowerChar(ch) ==
    IF ch = "U" THEN "u" ELSE IF ch = "P" THEN "p" ELSE IF ch = "G" THEN "g" ELSE ch

\* str.lower()
Lower(str) == [k \in 1 .. Len(str) |-> LowerChar(str[k])]

\* str.strip()
RECURSIVE LStrip(_)
LStrip(str) ==
    IF str # <<>> /\ Head(str) = " " THEN LStrip(Tail(str)) ELSE str
RECURSIVE RStrip(_)
RStrip(str) ==
    IF str # <<>> /\ str[Len(str)] = " " THEN RStrip(SubSeq(str, 1, Len(str) - 1))
    ELSE str
Strip(str) == LStrip(RStrip(str))

\* str[:n]
Slice(str, n) == SubSeq(str, 1, IF Len(str) < n THEN Len(str) ELSE n)

\* 87: the characters of the summary that enter the key
SUMMARY_KEY_LENGTH == 50

\* 80-88: the key an article is deduplicated by
ArticleKey(article) ==
    IF Strip(article.title) # <<>> THEN Strip(Lower(article.title))
    ELSE IF Strip(article.url) # <<>> THEN Strip(Lower(article.url))
    ELSE article.source \o <<"_">>
         \o Strip(Lower(Slice(article.summary, SUMMARY_KEY_LENGTH)))

\* the dedup loop keeping the last article of each key instead of the first
RECURSIVE DedupByKey_KeepLast(_)
DedupByKey_KeepLast(articles) ==
    IF articles = <<>> THEN <<>>
    ELSE IF \E k \in 2 .. Len(articles) : ArticleKey(articles[k]) = ArticleKey(articles[1])
    THEN DedupByKey_KeepLast(Tail(articles))
    ELSE <<articles[1]>> \o DedupByKey_KeepLast(Tail(articles))

\* 77-96: the dedup loop over all_articles
RECURSIVE DedupKeysFrom(_, _, _)
DedupKeysFrom(articles, unique_articles_, seen_keys) ==
    IF articles = <<>> THEN unique_articles_
    ELSE LET unique_key == ArticleKey(Head(articles))
         IN  IF unique_key \notin seen_keys
             THEN DedupKeysFrom(Tail(articles), Append(unique_articles_, Head(articles)),
                                seen_keys \cup {unique_key})
             ELSE DedupKeysFrom(Tail(articles), unique_articles_, seen_keys)

DedupByKey(articles) == DedupKeysFrom(articles, <<>>, {})

\* Articles as a NewsAnalyzer hands them over: with a title, without a title
\* but with a url, and with neither.
Padding == [k \in 1 .. SUMMARY_KEY_LENGTH |-> "x"]
Article(title, url, summary) ==
    [title |-> title, url |-> url, source |-> <<"R">>, summary |-> summary]
TitledUp == Article(<<"U", "p">>, <<"a">>, <<>>)
TitledUpSpaced == Article(<<" ", "u", "p", " ">>, <<"b">>, <<>>)
UrlUp == Article(<<" ">>, <<"U", "P">>, <<>>)
UrlOnly == Article(<<>>, <<"b">>, <<>>)
LongSummaryA == Article(<<>>, <<>>, Padding \o <<"a">>)
LongSummaryB == Article(<<>>, <<>>, Padding \o <<"b">>)
SummaryGain == Article(<<>>, <<>>, <<"G">>)
SummaryGainLower == Article(<<>>, <<" ">>, <<"g", " ">>)

ArticleMenus ==
    {<<>>, <<TitledUp>>, <<TitledUpSpaced, UrlUp>>, <<UrlOnly>>,
     <<LongSummaryA, LongSummaryB>>, <<LongSummaryB>>, <<SummaryGain>>,
     <<SummaryGainLower, TitledUp>>}

\* analyzers that hand over articles: raising, returning, and returning a
\* result whose score or confidence is not a number
ArticleOutcomes ==
    Raising
    \cup {[raises |-> FALSE, score |-> RHalf, confidence |-> ROne, text |-> "ok",
           articles |-> l] : l \in ArticleMenus}
    \cup {[raises |-> FALSE, score |-> ROne, confidence |-> None, text |-> "ok",
           articles |-> <<UrlOnly>>],
          [raises |-> FALSE, score |-> None, confidence |-> ROne, text |-> "ok",
           articles |-> <<SummaryGain>>]}

\* composites of such analyzers, each of weight 1
ArticleConfigs ==
    UNION {[1 .. n -> [weight : {ROne}, outcome : ArticleOutcomes]] : n \in 0 .. MaxAnalyzers}

\* models/recommendation.py 6-11: the values of RecommendationType
STRONG_BUY == "STRONG BUY"
BUY == "BUY"
HOLD == "HOLD"
SELL == "SELL"
STRONG_SELL == "STRONG SELL"

\* constants.py is not among the sources: the thresholds split the 0..1
\* scale into five equal bands.
SCORE_STRONG_BUY_THRESHOLD == R(4, 5)
SCORE_BUY_THRESHOLD == R(3, 5)
SCORE_HOLD_THRESHOLD == R(2, 5)
SCORE_SELL_THRESHOLD == R(1, 5)

\* the chain with the tests for BUY and HOLD in each other's place
calculate_recommendation_type_Swapped(score) ==
    IF RLe(SCORE_STRONG_BUY_THRESHOLD, score) THEN STRONG_BUY
    ELSE IF RLe(SCORE_BUY_THRESHOLD, score) THEN HOLD
    ELSE IF RLe(SCORE_HOLD_THRESHOLD, score) THEN BUY
    ELSE IF RLe(SCORE_SELL_THRESHOLD, score) THEN SELL
    ELSE STRONG_SELL

\* BaseAnalyzer.calculate_recommendation_type (base_analyzer.py 42-53)
calculate_recommendation_type(score) ==
    IF RLe(SCORE_STRONG_BUY_THRESHOLD, score) THEN STRONG_BUY
    ELSE IF RLe(SCORE_BUY_THRESHOLD, score) THEN BUY
    ELSE IF RLe(SCORE_HOLD_THRESHOLD, score) THEN HOLD
    ELSE IF RLe(SCORE_SELL_THRESHOLD, score) THEN SELL
    ELSE STRONG_SELL

CStart(configs) ==
    /\ analyzers \in configs
    /\ c_pc = "start"
    /\ c_idx = 0
    /\ weighted_score = RZero
    /\ weighted_confidence = RZero
    /\ total_weight = RZero
    /\ all_reasons = <<>>
    /\ c_all_articles = <<>>
    /\ c_result = None
    /\ c_prev = None
    /\ c_doubled = 0

CInit(outcomes) == CStart(Configs(outcomes))

\* analyze() with no analyzers: the fixed default (26-32)
AnalyzeNoAnalyzers ==
    /\ c_pc = "start"
    /\ analyzers = <<>>
    /\ c_result' = [score |-> COMPOSITE_DEFAULT_SCORE,
                    reasoning |-> DEFAULT_NO_ANALYZERS_REASONING,
                    confidence |-> COMPOSITE_DEFAULT_CONFIDENCE,
                    recommendation_type |-> HOLD]
    /\ c_pc' = "done"
    /\ UNCHANGED <<analyzers, c_idx, weighted_score, weighted_confidence,
                   total_weight, all_reasons, c_all_articles, c_prev, c_doubled>>
    /\ UNCHANGED <<lvars, nvars, rvars, pvars>>

\* analyze() entering the loop (34-38)
AnalyzeBegin ==
    /\ c_pc = "start"
    /\ analyzers # <<>>
    /\ weighted_score' = RZero
    /\ weighted_confidence' = RZero
    /\ total_weight' = RZero
    /\ all_reasons' = <<>>
    /\ c_all_articles' = <<>>
    /\ c_idx' = 1
    /\ c_pc' = "loop"
    /\ UNCHANGED <<analyzers, c_result, c_prev, c_doubled>>
    /\ UNCHANGED <<lvars, nvars, rvars, pvars>>

\* the loop ended by the first analyzer that raises
RunAnalyzer_AbortOnError ==
    /\ c_pc = "loop"
    /\ c_idx <= Len(analyzers)
    /\ LET acc == LoopBody([ws |-> weighted_score, wc |-> weighted_confidence,
                            tw |-> total_weight, articles |-> c_all_articles,
                            reasons |-> all_reasons], c_idx)
       IN  /\ weighted_score' = acc.ws
           /\ weighted_confidence' = acc.wc
           /\ total_weight' = acc.tw
           /\ all_reasons' = acc.reasons
           /\ c_all_articles' = acc.articles
    /\ c_idx' = IF analyzers[c_idx].outcome.raises THEN Len(analyzers) + 1 ELSE c_idx + 1
    /\ UNCHANGED <<analyzers, c_pc, c_result, c_prev, c_doubled>>
    /\ UNCHANGED <<lvars, nvars, rvars, pvars>>

\* one iteration of `for analyzer in self.analyzers` (41-64)
RunAnalyzer ==
    /\ c_pc = "loop"
    /\ c_idx <= Len(analyzers)
    /\ LET acc == LoopBody([ws |-> weighted_score, wc |-> weighted_confidence,
                            tw |-> total_weight, articles |-> c_all_articles,
                            reasons |-> all_reasons], c_idx)
       IN  /\ weighted_score' = acc.ws
           /\ weighted_confidence' = acc.wc
           /\ total_weight' = acc.tw
           /\ all_reasons' = acc.reasons
           /\ c_all_articles' = acc.articles
    /\ c_idx' = c_idx + 1
    /\ UNCHANGED <<analyzers, c_pc, c_result, c_prev, c_doubled>>
    /\ UNCHANGED <<lvars, nvars, rvars, pvars>>

\* after the loop: the weighted averages and the returned dict (66-106)
AnalyzeFinish ==
    /\ c_pc = "loop"
    /\ c_idx > Len(analyzers)
    /\ c_result' = [score |-> FinalScore(weighted_score, total_weight),
                    reasoning |-> Join(all_reasons, " | "),
                    confidence |-> FinalConfidence(weighted_confidence, total_weight),
                    recommendation_type |->
                        calculate_recommendation_type(
                            FinalScore(weighted_score, total_weight)),
                    articles |-> DedupByKey(c_all_articles)]
    /\ c_pc' = "done"
    /\ UNCHANGED <<analyzers, c_idx, weighted_score, weighted_confidence,
                   total_weight, all_reasons, c_all_articles, c_prev, c_doubled>>
    /\ UNCHANGED <<lvars, nvars, rvars, pvars>>

\* A second StockAnalyzer built with analyzer_weights in which analyzer k has
\* twice its weight, analysing the same stock (analyzer.py 52-98).
DoubleWeight(k) ==
    /\ c_pc = "done"
    /\ c_doubled = 0
    /\ k \in 1 .. Len(analyzers)
    /\ analyzers' = [analyzers EXCEPT ![k].weight = RMul(RInt(2), @)]
    /\ c_prev' = c_result
    /\ c_doubled' = k
    /\ c_pc' = "start"
    /\ UNCHANGED <<c_idx, weighted_score, weighted_confidence, total_weight,
                   all_reasons, c_all_articles, c_result>>
    /\ UNCHANGED <<lvars, nvars, rvars, pvars>>

CNext == AnalyzeNoAnalyzers \/ AnalyzeBegin \/ RunAnalyzer \/ AnalyzeFinish


\* ------------------------------------------------- LLM news analyzer
ProviderNames == <<"gemini", "groq", "huggingface", "openai">>
ProviderSet == {ProviderNames[i] : i \in 1 .. Len(ProviderNames)}

\* A JSON value inside "themes": a string, or an object (a Python dict,
\* which is unhashable).
JStr(s) == [type |-> "str", v |-> s]
JObj(s) == [type |-> "dict", v |-> s]
Hashable(x) == x.type = "str"

\* a provider's own three themes
OwnThemes(p) == <<JStr(p \o "-1"), JStr(p \o "-2"), JStr(p \o "-3")>>

\* The JSON object a provider answers with.  BaseJson is varied one aspect
\* at a time.
BaseJson ==
    [sentiment |-> "neutral", sentiment_score |-> RHalf, themes |-> <<>>,
     impact |-> "neutral", confidence |-> R(7, 10), summary |-> ""]
Sentiments == {"positive", "negative", "neutral"}
Impacts == {"bullish", "bearish", "neutral"}
ReportedScores == {R(1, 5), R(7, 10)}
JsonAnswers(p) ==
    {[BaseJson EXCEPT !.sentiment = s, !.sentiment_score = v] :
        s \in Sentiments, v \in ReportedScores}
    \cup {[BaseJson EXCEPT !.sentiment_score = None]}
    \cup {[BaseJson EXCEPT !.impact = i, !.sentiment_score = R(7, 10)] : i \in Impacts}
    \cup {[BaseJson EXCEPT !.themes = t] :
            t \in {<<JStr("growth"), JStr("risk"), JStr("growth")>>,
                   OwnThemes(p), <<JObj("topic")>>}}
    \cup {[BaseJson EXCEPT !.confidence = ROne, !.summary = "Strong quarter"]}
    \cup {[BaseJson EXCEPT !.sentiment = "mixed"]}

\* What the provider's API does when called: the call fails (network, auth,
\* HTTP status), the answer has another shape than expected, or it is a text
\* that holds a JSON object or does not.
Responses(p) ==
    {[kind |-> "exception", json |-> None], [kind |-> "shape", json |-> None],
     [kind |-> "garbage", json |-> None]}
    \cup {[kind |-> "text", json |-> j] : j \in JsonAnswers(p)}

\* outcomes of a call that returned no dict
Raised == [raised |-> TRUE]
NoDict == [raised |-> FALSE]
IsDict(x) == "method" \in DOMAIN x

Clamp01(x) == RMax(RZero, RMin(ROne, x))

\* ParsedScore without the reversal under the label "negative"
ParsedScore_NoReversal(j) == Clamp01(j.sentiment_score)

\* 475-487: the reported score, reversed under the label "negative", clamped
ParsedScore(j) ==
    Clamp01(IF j.sentiment = "negative"
            THEN RSub(ROne, j.sentiment_score)
            ELSE j.sentiment_score)

\* _parse_llm_response (463-497): None without a JSON object; a TypeError
\* escapes for a score or confidence that is no number.
ParseLLMResponse(resp, p) ==
    IF resp.kind # "text" THEN NoDict
    ELSE LET j == resp.json IN
         IF ~IsNum(j.sentiment_score) \/ ~IsNum(j.confidence) THEN Raised
         ELSE [sentiment |-> j.sentiment,
               sentiment_score |-> ParsedScore(j),
               themes |-> j.themes,
               impact |-> j.impact,
               confidence |-> Clamp01(j.confidence),
               summary |-> j.summary,
               method |-> "llm-" \o p]

\* _try_gemini, _try_groq, _try_huggingface, _try_openai (174-369): every
\* exception is re-raised; _try_groq raises on an unparseable answer too, and
\* _try_huggingface returns None for an answer that is no list.
TryProvider(p, resp) ==
    IF resp.kind = "exception" THEN Raised
    ELSE IF resp.kind = "shape" THEN (IF p = "huggingface" THEN NoDict ELSE Raised)
    ELSE LET parsed == ParseLLMResponse(resp, p) IN
         IF p = "groq" /\ ~IsDict(parsed) THEN Raised ELSE parsed


\* str(n) for a natural number
Digits == <<"0", "1", "2", "3", "4", "5", "6", "7", "8", "9">>
RECURSIVE IntToStr(_)
IntToStr(n) == IF n < 10 THEN Digits[n + 1] ELSE IntToStr(n \div 10) \o Digits[(n % 10) + 1]

Count(seq, x) == Cardinality({k \in 1 .. Len(seq) : seq[k] = x})

\* list(dict.fromkeys(xs)): the first occurrence of each element, in order
RECURSIVE FromKeys(_)
FromKeys(xs) ==
    IF xs = <<>> THEN <<>>
    ELSE LET init == FromKeys(SubSeq(xs, 1, Len(xs) - 1))
             last == xs[Len(xs)]
         IN  IF \E k \in 1 .. Len(init) : init[k] = last THEN init ELSE Append(init, last)

RECURSIVE Concat(_)
Concat(seqs) == IF seqs = <<>> THEN <<>> ELSE Head(seqs) \o Concat(Tail(seqs))

Prefix(seq, n) == SubSeq(seq, 1, IF Len(seq) < n THEN Len(seq) ELSE n)

\* max(xs, key=len): the first of the longest
RECURSIVE Longest(_)
Longest(xs) ==
    IF Len(xs) = 1 THEN xs[1]
    ELSE LET rest == Longest(Tail(xs)) IN
         IF Len(xs[1]) >= Len(rest) THEN xs[1] ELSE rest

\* themes kept by _aggregate_llm_results (456)
MAX_THEMES == 10
\* per extra provider (438)
CONFIDENCE_BOOST == R(1, 20)
POSITIVE_SCORE_THRESHOLD == R(3, 5)
NEGATIVE_SCORE_THRESHOLD == R(2, 5)

\* 391-410
OverallSentiment(results) ==
    LET n == Len(results)
        scores == [k \in 1 .. n |-> results[k].sentiment_score]
        avg == RDiv(RSum(scores), RInt(n))
        sentiments == [k \in 1 .. n |-> results[k].sentiment]
        positive_count == Count(sentiments, "positive")
        negative_count == Count(sentiments, "negative")
        neutral_count == Count(sentiments, "neutral")
    IN  IF positive_count > negative_count /\ positive_count > neutral_count
        THEN "positive"
        ELSE IF negative_count > positive_count /\ negative_count > neutral_count
        THEN "negative"
        ELSE IF RLt(POSITIVE_SCORE_THRESHOLD, avg) THEN "positive"
        ELSE IF RLt(avg, NEGATIVE_SCORE_THRESHOLD) THEN "negative"
        ELSE "neutral"

\* OverallImpact with the tie-break of the sentiment vote copied into it
OverallImpact_ScoreTieBreak(results) ==
    LET n == Len(results)
        avg == RDiv(RSum([k \in 1 .. n |-> results[k].sentiment_score]), RInt(n))
        impacts == [k \in 1 .. n |-> results[k].impact]
        bullish_count == Count(impacts, "bullish")
        bearish_count == Count(impacts, "bearish")
        neutral_impact_count == Count(impacts, "neutral")
    IN  IF bullish_count > bearish_count /\ bullish_count > neutral_impact_count
        THEN "bullish"
        ELSE IF bearish_count > bullish_count /\ bearish_count > neutral_impact_count
        THEN "bearish"
        ELSE IF RLt(POSITIVE_SCORE_THRESHOLD, avg) THEN "bullish"
        ELSE IF RLt(avg, NEGATIVE_SCORE_THRESHOLD) THEN "bearish"
        ELSE "neutral"

\* 412-423
OverallImpact(results) ==
    LET impacts == [k \in 1 .. Len(results) |-> results[k].impact]
        bullish_count == Count(impacts, "bullish")
        bearish_count == Count(impacts, "bearish")
        neutral_impact_count == Count(impacts, "neutral")
    IN  IF bullish_count > bearish_count /\ bullish_count > neutral_impact_count
        THEN "bullish"
        ELSE IF bearish_count > bullish_count /\ bearish_count > neutral_impact_count
        THEN "bearish"
        ELSE "neutral"

\* 433-438
AggregateConfidence(results) ==
    LET n == Len(results)
        avg == RDiv(RSum([k \in 1 .. n |-> results[k].confidence]), RInt(n))
    IN  IF n > 1
        THEN RMin(ROne, RAdd(avg, RMul(CONFIDENCE_BOOST, RInt(n - 1))))
        ELSE avg

\* 440-448
CombinedSummary(results, names) ==
    LET all == [k \in 1 .. Len(results) |-> results[k].summary]
        summaries == SelectSeq(all, LAMBDA x : x # "")
        n == IntToStr(Len(names))
    IN  IF summaries # <<>>
        THEN Longest(summaries)
             \o (IF Len(summaries) > 1
                 THEN " (Consensus from " \o n \o " LLM providers)" ELSE "")
        ELSE "Analysis from " \o n \o " LLM providers"

\* MethodTag naming only the first provider
MethodTag_FirstOnly(names) == "llm-" \o names[1]

\* 450-460: the method string showing all providers
MethodTag(names) == "llm-" \o Join(names, "+")

\* _aggregate_llm_results (371-461) for one or more results; dict.fromkeys
\* raises TypeError on an unhashable theme.
AggregateLLMResults(results, names) ==
    IF Len(results) = 1
    THEN [results[1] EXCEPT !.method = "llm-" \o names[1]]
    ELSE LET n == Len(results)
             avg == RDiv(RSum([k \in 1 .. n |-> results[k].sentiment_score]), RInt(n))
             all_themes == Concat([k \in 1 .. n |-> results[k].themes])
         IN  IF \E k \in 1 .. Len(all_themes) : ~Hashable(all_themes[k])
             THEN Raised
             ELSE [sentiment |-> OverallSentiment(results),
                   sentiment_score |-> Clamp01(avg),
                   themes |-> Prefix(FromKeys(all_themes), MAX_THEMES),
                   impact |-> OverallImpact(results),
                   confidence |-> Clamp01(AggregateConfidence(results)),
                   summary |-> CombinedSummary(results, names),
                   method |-> MethodTag(names)]


\* constants.py is not among the sources: the fixed ratio by which one
\* keyword count must exceed the other.
NEWS_SENTIMENT_MULTIPLIER == R(3, 2)

\* An article, as far as the keyword analysis reads it: whether its title
\* and summary hold a positive keyword, a negative keyword (509-521).
ArticleKinds == [pos : BOOLEAN, neg : BOOLEAN]

\* the classification without the ratio: the larger count wins
KeywordSentiment_LargerCount(positive_count, negative_count) ==
    IF positive_count > negative_count THEN "positive"
    ELSE IF negative_count > positive_count THEN "negative"
    ELSE "neutral"

\* 539-547: the sentiment from the two counts
KeywordSentiment(positive_count, negative_count) ==
    IF RLt(RMul(RInt(negative_count), NEWS_SENTIMENT_MULTIPLIER),
           RInt(positive_count))
    THEN "positive"
    ELSE IF RLt(RMul(RInt(positive_count), NEWS_SENTIMENT_MULTIPLIER),
                RInt(negative_count))
    THEN "negative"
    ELSE "neutral"

\* a result for no articles as confident as one for balanced articles
NoArticlesResult_Moderate ==
    [sentiment |-> "neutral", sentiment_score |-> RHalf, themes |-> <<>>,
     impact |-> "neutral", confidence |-> R(7, 10),
     summary |-> "No articles to analyze", method |-> "keyword"]

\* 525-533: the result for an empty article list
NoArticlesResult ==
    [sentiment |-> "neutral", sentiment_score |-> RHalf, themes |-> <<>>,
     impact |-> "neutral", confidence |-> R(3, 10),
     summary |-> "No articles to analyze", method |-> "keyword"]

\* _fallback_keyword_analysis (499-557)
FallbackKeywordAnalysis(articles) ==
    LET positive_count == Cardinality({k \in 1 .. Len(articles) : articles[k].pos})
        negative_count == Cardinality({k \in 1 .. Len(articles) : articles[k].neg})
        total == Len(articles)
    IN  IF total = 0
        THEN NoArticlesResult
        ELSE LET positive_ratio == R(positive_count, total)
                 negative_ratio == R(negative_count, total)
                 sentiment == KeywordSentiment(positive_count, negative_count)
                 sentiment_score ==
                     IF sentiment = "positive"
                     THEN RAdd(RHalf, RMul(positive_ratio, R(3, 10)))
                     ELSE IF sentiment = "negative"
                     THEN RSub(RHalf, RMul(negative_ratio, R(3, 10)))
                     ELSE RHalf
                 fewer == IF positive_count < negative_count
                          THEN positive_count ELSE negative_count
             IN  [sentiment |-> sentiment,
                  sentiment_score |-> Clamp01(sentiment_score),
                  themes |-> <<>>,
                  impact |-> IF sentiment = "positive" THEN "bullish"
                             ELSE IF sentiment = "negative" THEN "bearish"
                             ELSE "neutral",
                  confidence |-> RAdd(RHalf, RMul(R(fewer, total), R(1, 5))),
                  summary |-> "Keyword analysis: " \o IntToStr(positive_count)
                              \o " positive, " \o IntToStr(negative_count)
                              \o " negative articles",
                  method |-> "keyword"]

\* llm_provider as configured: "auto", a provider, or a name that is none
ProviderPreferences == {"auto", "huggingface", "claude"}

\* the article lists the provider chain is exercised with
ChainArticleLists == {<<>>, <<[pos |-> TRUE, neg |-> FALSE]>>}

\* the named provider alone, without the others as fallbacks
ProviderOrder_NamedOnly(provider, keys) ==
    LET configured == SelectSeq(ProviderNames, LAMBDA p : p \in keys)
    IN  IF provider = "auto" THEN configured
        ELSE IF provider \in ProviderSet /\ provider \in keys
        THEN <<provider>> ELSE configured

\* 52-81: the configured providers, in "auto" mode in the fixed order, else
\* the named provider first and the others in the order of provider_map
ProviderOrder(provider, keys) ==
    LET configured == SelectSeq(ProviderNames, LAMBDA p : p \in keys)
    IN  IF provider = "auto" THEN configured
        ELSE (IF provider \in ProviderSet /\ provider \in keys
              THEN <<provider>> ELSE <<>>)
             \o SelectSeq(configured, LAMBDA p : p # provider)

\* the article lists the keyword analysis is exercised with
RECURSIVE ArticleLists(_)
ArticleLists(n) ==
    IF n = 0 THEN {<<>>}
    ELSE LET shorter == ArticleLists(n - 1)
         IN  shorter \cup {Append(l, a) : l \in shorter, a \in ArticleKinds}

\* an analyzer constructed with some keys and a preference, about to be
\* called with an article list
LStart(keysets, preferences, lists) ==
    /\ l_keys \in keysets
    /\ l_provider \in preferences
    /\ l_articles \in lists
    /\ l_pc = "start"
    /\ providers = <<>>
    /\ l_idx = 0
    /\ successful_results = <<>>
    /\ successful_providers = <<>>
    /\ l_answers = <<>>
    /\ l_calls = <<>>
    /\ l_result = None

LInit == LStart(SUBSET ProviderSet, ProviderPreferences, ChainArticleLists)

\* 43-45: no provider key or no articles
KeywordOnly ==
    /\ l_pc = "start"
    /\ (l_keys = {} \/ l_articles = <<>>)
    /\ l_result' = FallbackKeywordAnalysis(l_articles)
    /\ l_pc' = "done"
    /\ UNCHANGED <<l_keys, l_provider, l_articles, providers, l_idx,
                   successful_results, successful_providers, l_answers, l_calls>>
    /\ UNCHANGED <<cvars, nvars, rvars, pvars>>

\* 47-88: the prompt and the provider order
BuildProviders ==
    /\ l_pc = "start"
    /\ l_keys # {} /\ l_articles # <<>>
    /\ providers' = ProviderOrder(l_provider, l_keys)
    /\ l_idx' = 1
    /\ l_pc' = "loop"
    /\ UNCHANGED <<l_keys, l_provider, l_articles, successful_results,
                   successful_providers, l_answers, l_calls, l_result>>
    /\ UNCHANGED <<cvars, nvars, rvars, pvars>>

\* the chain ended by the first provider that succeeds
TryNextProvider_StopAtSuccess ==
    /\ l_pc = "loop"
    /\ l_idx <= Len(providers)
    /\ \E resp \in Responses(providers[l_idx]) :
         LET p == providers[l_idx]
             result == TryProvider(p, resp)
         IN  IF IsDict(result) /\ IsNum(result.sentiment_score)
             THEN /\ successful_results' = Append(successful_results, result)
                  /\ successful_providers' = Append(successful_providers, p)
                  /\ l_answers' = Append(l_answers, resp.json)
             ELSE UNCHANGED <<successful_results, successful_providers, l_answers>>
    /\ l_calls' = Append(l_calls, providers[l_idx])
    /\ l_idx' = IF Len(successful_results') > Len(successful_results)
               THEN Len(providers) + 1 ELSE l_idx + 1
    /\ UNCHANGED <<l_keys, l_provider, l_articles, l_pc, providers, l_result>>
    /\ UNCHANGED <<cvars, nvars, rvars, pvars>>

\* 90-106: one provider is tried; its result is collected when it is a dict
\* with a sentiment_score
TryNextProvider ==
    /\ l_pc = "loop"
    /\ l_idx <= Len(providers)
    /\ \E resp \in Responses(providers[l_idx]) :
         LET p == providers[l_idx]
             result == TryProvider(p, resp)
         IN  IF IsDict(result) /\ IsNum(result.sentiment_score)
             THEN /\ successful_results' = Append(successful_results, result)
                  /\ successful_providers' = Append(successful_providers, p)
                  /\ l_answers' = Append(l_answers, resp.json)
             ELSE UNCHANGED <<successful_results, successful_providers, l_answers>>
    /\ l_calls' = Append(l_calls, providers[l_idx])
    /\ l_idx' = l_idx + 1
    /\ UNCHANGED <<l_keys, l_provider, l_articles, l_pc, providers, l_result>>
    /\ UNCHANGED <<cvars, nvars, rvars, pvars>>

\* 108-114: the collected results are aggregated and returned, unless the
\* aggregation raises
ReturnAggregated ==
    /\ l_pc = "loop"
    /\ l_idx > Len(providers)
    /\ successful_results # <<>>
    /\ LET aggregated == AggregateLLMResults(successful_results, successful_providers)
       IN  /\ l_result' = aggregated
           /\ l_pc' = IF IsDict(aggregated) THEN "done" ELSE "raised"
    /\ UNCHANGED <<l_keys, l_provider, l_articles, providers, l_idx,
                   successful_results, successful_providers, l_answers, l_calls>>
    /\ UNCHANGED <<cvars, nvars, rvars, pvars>>

\* 116-122: every provider failed
ReturnFallback ==
    /\ l_pc = "loop"
    /\ l_idx > Len(providers)
    /\ successful_results = <<>>
    /\ l_result' = FallbackKeywordAnalysis(l_articles)
    /\ l_pc' = "done"
    /\ UNCHANGED <<l_keys, l_provider, l_articles, providers, l_idx,
                   successful_results, successful_providers, l_answers, l_calls>>
    /\ UNCHANGED <<cvars, nvars, rvars, pvars>>

LNext ==
    \/ KeywordOnly
    \/ BuildProviders
    \/ TryNextProvider
    \/ ReturnAggregated
    \/ ReturnFallback

\* ------------------------------------------------------------ news fetcher
\* A title is the sequence of its words, as title.strip() and split() leave
\* them; lower() folds the case of each word.
AppleBeatsExpectations == <<"Apple", "beats", "earnings", "expectations">>
AppleBeatsExpectationsToday == AppleBeatsExpectations \o <<"today">>
AppleBeatsExpectationsTodayAgain == AppleBeatsExpectationsToday \o <<"again">>
AppleBeatsExpectationsTodayAgainSoon == AppleBeatsExpectationsTodayAgain \o <<"soon">>
AppleBeatsExpectationsCapitals == <<"APPLE", "Beats", "earnings", "expectations">>
AppleBeats == <<"Apple", "beats", "earnings">>
TeslaMisses == <<"Tesla", "misses", "earnings">>

\* str.lower() on the words that occur
LowerWord(w) ==
    IF w \in {"Apple", "APPLE"} THEN "apple"
    ELSE IF w = "Beats" THEN "beats"
    ELSE IF w = "Tesla" THEN "tesla"
    ELSE w

\* 565: article.title.lower().strip()
TitleLower(title) == [k \in 1 .. Len(title) |-> LowerWord(title[k])]

\* the overlap as a share of the first title's words only
Similarity_Containment(str1, str2) ==
    IF str1 = <<>> \/ str2 = <<>> THEN RZero
    ELSE LET words1 == {str1[k] : k \in 1 .. Len(str1)}
             words2 == {str2[k] : k \in 1 .. Len(str2)}
         IN  R(Cardinality(words1 \cap words2), Cardinality(words1))

\* _similarity (585-600): the Jaccard index of the two word sets
Similarity(str1, str2) ==
    IF str1 = <<>> \/ str2 = <<>> THEN RZero
    ELSE LET words1 == {str1[k] : k \in 1 .. Len(str1)}
             words2 == {str2[k] : k \in 1 .. Len(str2)}
         IN  R(Cardinality(words1 \cap words2), Cardinality(words1 \cup words2))

\* 572: above this similarity a title is a duplicate
SIMILARITY_THRESHOLD == R(4, 5)

\* a title a duplicate only of the very same title
IsDuplicate_ExactTitle(title_lower, seen_titles) == title_lower \in seen_titles

\* 569-574
IsDuplicate(title_lower, seen_titles) ==
    \E seen_title \in seen_titles :
        RLt(SIMILARITY_THRESHOLD, Similarity(title_lower, seen_title))

\* 560-578: the dedup loop
RECURSIVE DedupFrom(_, _, _)
DedupFrom(articles, unique, seen_titles) ==
    IF articles = <<>> THEN unique
    ELSE LET article == Head(articles)
             title_lower == TitleLower(article.title)
         IN  IF IsDuplicate(title_lower, seen_titles)
             THEN DedupFrom(Tail(articles), unique, seen_titles)
             ELSE DedupFrom(Tail(articles), Append(unique, article),
                            seen_titles \cup {title_lower})

Dedup(articles) == DedupFrom(articles, <<>>, {})

\* A datetime: an instant in ticks, naive (local time) or aware (carrying a
\* UTC offset).  Comparing a naive with an aware one raises TypeError.
Naive(t) == [t |-> t, aware |-> FALSE]
Aware(t) == [t |-> t, aware |-> TRUE]
Comparable(articles) ==
    Cardinality({articles[k].published_date.aware : k \in 1 .. Len(articles)}) <= 1

\* 581: list.sort(key=published_date, reverse=True), which is stable
RECURSIVE InsertByDate(_, _)
InsertByDate(article, sorted) ==
    IF sorted = <<>> THEN <<article>>
    ELSE IF Head(sorted).published_date.t >= article.published_date.t
    THEN <<Head(sorted)>> \o InsertByDate(article, Tail(sorted))
    ELSE <<article>> \o sorted

RECURSIVE SortNewestFirst(_)
SortNewestFirst(articles) ==
    IF articles = <<>> THEN <<>>
    ELSE InsertByDate(articles[Len(articles)],
                      SortNewestFirst(SubSeq(articles, 1, Len(articles) - 1)))

\* the fetch time at which fetch_all_sources starts; the items' dates lie
\* before it
FetchTime == 4

\* What a source's feed holds for one article: a title and a date that is
\* present or missing.
Dated(title, date) == [title |-> title, dated |-> TRUE, date |-> date]
Undated(title) == [title |-> title, dated |-> FALSE, date |-> Naive(0)]

\* NewsArticle.__init__ (9-15): published_date or datetime.now()
NewsArticle(item, now) ==
    [title |-> item.title,
     published_date |-> IF item.dated THEN item.date ELSE Naive(now)]

Missing(items) == Cardinality({k \in 1 .. Len(items) : ~items[k].dated})

\* the articles a source builds from its items, each undated one at a later
\* reading of the clock
RECURSIVE Build(_, _)
Build(items, now) ==
    IF items = <<>> THEN <<>>
    ELSE <<NewsArticle(Head(items), now)>>
         \o Build(Tail(items), IF Head(items).dated THEN now ELSE now + 1)

\* What a call of a source does: it returns the articles built from its
\* items, or an exception is caught inside it and it returns the articles
\* built before the exception.
Returned(items) == [failed |-> FALSE, items |-> items]
FailedAfter(items) == [failed |-> TRUE, items |-> items]

ArticleSources == <<"yfinance", "rss", "google", "newsapi", "alphavantage">>

\* yfinance, RSS, Google News and Alpha Vantage build naive dates (from an
\* epoch timestamp, a time tuple, a string without offset); NewsAPI parses
\* ISO strings that carry a UTC offset.
SourceOutcomes(source) ==
    IF source = "yfinance"
    THEN {FailedAfter(<<>>),
          FailedAfter(<<Dated(AppleBeatsExpectations, Naive(2))>>),
          Returned(<<Dated(AppleBeatsExpectations, Naive(2))>>),
          Returned(<<Dated(AppleBeatsExpectations, Naive(2)), Undated(AppleBeats)>>),
          Returned(<<Undated(AppleBeats)>>)}
    ELSE IF source = "rss"
    THEN {FailedAfter(<<>>), Returned(<<>>),
          Returned(<<Dated(AppleBeatsExpectationsToday, Naive(1))>>)}
    ELSE IF source = "google"
    THEN {FailedAfter(<<>>),
          Returned(<<Dated(TeslaMisses, Naive(3))>>),
          Returned(<<Dated(TeslaMisses, Naive(3)),
                     Dated(AppleBeatsExpectationsCapitals, Naive(1))>>)}
    ELSE IF source = "newsapi"
    THEN {FailedAfter(<<>>),
          FailedAfter(<<Dated(AppleBeatsExpectationsTodayAgain, Aware(2))>>),
          Returned(<<Dated(AppleBeatsExpectationsTodayAgain, Aware(2))>>),
          Returned(<<Undated(AppleBeats)>>),
          Returned(<<Dated(AppleBeats, Naive(3))>>)}
    ELSE IF source = "alphavantage"
    THEN {FailedAfter(<<>>),
          Returned(<<Dated(AppleBeatsExpectationsToday, Naive(3))>>)}
    ELSE {FailedAfter(<<>>),
          Returned(<<Dated(TeslaMisses, Aware(1))>>),
          Returned(<<Dated(AppleBeatsExpectationsTodayAgain, Naive(1))>>),
          Returned(<<Dated(AppleBeatsExpectationsTodayAgainSoon, Naive(2))>>)}

\* 129-130, 190-191, 298-299: a source without its key returns no article
Configured(source, keys) ==
    IF source \in {"newsapi", "related"} THEN "newsapi" \in keys
    ELSE IF source = "alphavantage" THEN "alphavantage" \in keys
    ELSE TRUE

\* 254-263: the sector yfinance reports, '' when the lookup fails
Sectors == {"", "Energy", "Textiles"}

\* get_related_market_keywords (265-290)
RelatedMarketKeywords(sector) ==
    IF sector = "Energy"
    THEN {"oil", "gas", "war", "conflict", "geopolitics", "OPEC", "crude", "petroleum"}
    ELSE {}

NInit ==
    /\ n_keys \in SUBSET {"newsapi", "alphavantage"}
    /\ n_related \in BOOLEAN
    /\ n_pc = "yfinance"
    /\ n_clock = FetchTime
    /\ all_articles = <<>>
    /\ n_failed = {}
    /\ n_intact = <<>>
    /\ n_keywords = {}
    /\ unique_articles = <<>>
    /\ n_order = <<>>
    /\ n_again = <<>>

\* the call of a source and what fetch_all_sources does with its answer
Collect(source, o) ==
    LET built == Build(o.items, n_clock)
    IN  /\ all_articles' = all_articles \o built
        /\ n_clock' = n_clock + Missing(o.items)
        /\ n_failed' = IF o.failed THEN n_failed \cup {source} ELSE n_failed
        /\ n_intact' = IF o.failed THEN n_intact ELSE n_intact \o built

\* 514-538: one of the five article sources is queried
FetchFrom(k) ==
    /\ n_pc = ArticleSources[k]
    /\ \E o \in (IF Configured(ArticleSources[k], n_keys)
                 THEN SourceOutcomes(ArticleSources[k])
                 ELSE {Returned(<<>>)}) :
           Collect(ArticleSources[k], o)
    /\ n_pc' = IF k < Len(ArticleSources) THEN ArticleSources[k + 1]
               ELSE IF n_related THEN "sector" ELSE "dedup"
    /\ UNCHANGED <<n_keys, n_related, n_keywords, unique_articles, n_order, n_again>>
    /\ UNCHANGED <<cvars, lvars, rvars, pvars>>

\* 541-546: the sector lookup and the keywords of the sector
SectorLookup ==
    /\ n_pc = "sector"
    /\ \E failed \in BOOLEAN :
       \E sector \in (IF failed THEN {""} ELSE Sectors) :
           /\ n_keywords' = RelatedMarketKeywords(sector)
           /\ n_failed' = IF failed THEN n_failed \cup {"sector"} ELSE n_failed
           /\ n_pc' = IF RelatedMarketKeywords(sector) # {} THEN "related" ELSE "dedup"
    /\ UNCHANGED <<n_keys, n_related, n_clock, all_articles, n_intact,
                   unique_articles, n_order, n_again>>
    /\ UNCHANGED <<cvars, lvars, rvars, pvars>>

\* 547-555: the broadened query for the sector's keywords
RelatedQuery ==
    /\ n_pc = "related"
    /\ \E o \in (IF Configured("related", n_keys)
                 THEN SourceOutcomes("related") ELSE {Returned(<<>>)}) :
           Collect("related", o)
    /\ n_pc' = "dedup"
    /\ UNCHANGED <<n_keys, n_related, n_keywords, unique_articles, n_order, n_again>>
    /\ UNCHANGED <<cvars, lvars, rvars, pvars>>

\* 559-583: dedup, sort and return; the sort raises TypeError when naive and
\* aware dates meet
DedupSortReturn ==
    /\ n_pc = "dedup"
    /\ LET unique == Dedup(all_articles)
       IN  IF Comparable(unique)
           THEN /\ unique_articles' = SortNewestFirst(unique)
                /\ n_pc' = "done"
           ELSE /\ unique_articles' = <<>>
                /\ n_pc' = "raised"
    /\ UNCHANGED <<n_keys, n_related, n_clock, all_articles, n_failed, n_intact,
                   n_keywords, n_order, n_again>>
    /\ UNCHANGED <<cvars, lvars, rvars, pvars>>

\* 560-578 once more: the returned list, in any order, is handed to the
\* dedup loop again
DedupAgain ==
    /\ n_pc = "done"
    /\ \E f \in Permutations(1 .. Len(unique_articles)) :
           LET order == [k \in 1 .. Len(unique_articles) |-> unique_articles[f[k]]]
           IN  /\ n_order' = order
               /\ n_again' = Dedup(order)
    /\ n_pc' = "again"
    /\ UNCHANGED <<n_keys, n_related, n_clock, all_articles, n_failed, n_intact,
                   n_keywords, unique_articles>>
    /\ UNCHANGED <<cvars, lvars, rvars, pvars>>

NNext ==
    \/ \E k \in 1 .. Len(ArticleSources) : FetchFrom(k)
    \/ SectorLookup
    \/ RelatedQuery
    \/ DedupSortReturn
    \/ DedupAgain

\* ------------------------------------------------ create_recommendation
\* base_analyzer.py 5-9: constants of services/analyzers/constants.py
DEFAULT_SCORE == RHalf
DEFAULT_CONFIDENCE == RHalf
DEFAULT_REASONING == "No analysis available"
TARGET_PRICE_MULTIPLIER == R(11, 10)

\* dict.get(key, default)
Get(dict, key, default) == IF key \in DOMAIN dict THEN dict[key] ELSE default

\* a target price whatever the recommendation type
create_recommendation_TargetAlways(name, current_price, result) ==
    LET score == Get(result, "score", DEFAULT_SCORE)
        reasoning == Get(result, "reasoning", DEFAULT_REASONING)
    IN  [recommendation_type |->
             Get(result, "recommendation_type", calculate_recommendation_type(score)),
         confidence_score |-> Get(result, "confidence", DEFAULT_CONFIDENCE),
         reasoning |-> IF name = "Composite Analysis" THEN reasoning
                       ELSE "[" \o name \o "] " \o reasoning,
         target_price |-> RMul(current_price, TARGET_PRICE_MULTIPLIER),
         articles |-> Get(result, "articles", <<>>)]

\* BaseAnalyzer.create_recommendation (55-82)
create_recommendation(name, current_price, result) ==
    LET score == Get(result, "score", DEFAULT_SCORE)
        reasoning == Get(result, "reasoning", DEFAULT_REASONING)
        confidence == Get(result, "confidence", DEFAULT_CONFIDENCE)
        recommendation_type ==
            Get(result, "recommendation_type", calculate_recommendation_type(score))
        articles == Get(result, "articles", <<>>)
        target_price ==
            IF recommendation_type \in {BUY, STRONG_BUY}
            THEN RMul(current_price, TARGET_PRICE_MULTIPLIER)
            ELSE None
        final_reasoning ==
            IF name = "Composite Analysis" THEN reasoning
            ELSE "[" \o name \o "] " \o reasoning
    IN  [recommendation_type |-> recommendation_type,
         confidence_score |-> confidence,
         reasoning |-> final_reasoning,
         target_price |-> target_price,
         articles |-> articles]

\* composite_analyzer.py 13: a composite takes any name, "Composite Analysis"
\* when none is given
CompositeNames == {"Composite Analysis", "Sector Blend"}
\* base_analyzer.py 14-23: an individual analyzer takes any name; those of
\* the repository pass a fixed one (momentum_analyzer.py 29)
IndividualNames == {"Momentum Analysis", "Composite Analysis"}
\* stock.current_price (models/stock.py 10)
Prices == {R(100, 1), R(5, 2)}

\* an analysis result holds any of the five keys
AnalysisResults ==
    {[key \in keys |-> full[key]] :
        keys \in SUBSET {"score", "reasoning", "confidence",
                         "recommendation_type", "articles"},
        full \in [score : {R(9, 10), R(7, 10), R(1, 2), R(3, 10), R(1, 10)},
                  reasoning : {"Strong momentum"},
                  confidence : {R(7, 10), R(3, 10)},
                  recommendation_type : {STRONG_BUY, BUY, HOLD, SELL, STRONG_SELL},
                  articles : {<<>>, <<TitledUp>>}]}

RInit ==
    /\ r_pc = "start"
    /\ r_composite \in BOOLEAN
    /\ r_name \in (IF r_composite THEN CompositeNames ELSE IndividualNames)
    /\ r_price \in Prices
    /\ analysis_result = <<>>
    /\ recommendation = None

RIdle ==
    /\ r_pc = "idle"
    /\ r_composite = FALSE
    /\ r_name = ""
    /\ r_price = RZero
    /\ analysis_result = <<>>
    /\ recommendation = None

\* analyze(stock) hands back an analysis result (analyzer.py 102)
RAnalyze ==
    /\ r_pc = "start"
    /\ analysis_result' \in AnalysisResults
    /\ r_pc' = "analyzed"
    /\ UNCHANGED <<r_name, r_composite, r_price, recommendation>>
    /\ UNCHANGED <<cvars, lvars, nvars, pvars>>

\* create_recommendation(stock, analysis_result) (analyzer.py 103)
CreateRecommendation ==
    /\ r_pc = "analyzed"
    /\ recommendation' = create_recommendation(r_name, r_price, analysis_result)
    /\ r_pc' = "done"
    /\ UNCHANGED <<r_name, r_composite, r_price, analysis_result>>
    /\ UNCHANGED <<cvars, lvars, nvars, pvars>>

RNext == RAnalyze \/ CreateRecommendation

\* ------------------------------------------------- period-based analyzer
\* period_based_analyzer.py 5-17: constants of services/analyzers/constants.py
MIN_SCORE == RZero
MAX_SCORE == ROne
PERIOD_BASED_CONFIDENCE == R(7, 10)
PERIOD_BASED_CONFIDENCE_ERROR == R(3, 10)
\* the per-period constants of services/analyzers/constants.py, under their
\* names
PeriodConstants ==
    [PERIODS_CONFIG |->
         <<[name |-> "Week", weight |-> ROne],
           [name |-> "Month", weight |-> R(3, 2)],
           [name |-> "Quarter", weight |-> R(2, 1)]>>,
     PERIOD_CHANGE_STRONG_POSITIVE |-> R(10, 1),
     PERIOD_CHANGE_POSITIVE |-> R(5, 1),
     PERIOD_CHANGE_NEGATIVE |-> R(0 - 5, 1),
     PERIOD_CHANGE_STRONG_NEGATIVE |-> R(0 - 10, 1),
     PERIOD_SCORE_STRONG_POSITIVE |-> R(4, 5),
     PERIOD_SCORE_POSITIVE |-> R(13, 20),
     PERIOD_SCORE_SLIGHTLY_POSITIVE |-> R(11, 20),
     PERIOD_SCORE_SLIGHTLY_NEGATIVE |-> R(9, 20),
     PERIOD_SCORE_NEGATIVE |-> R(7, 20),
     PERIOD_SCORE_STRONG_NEGATIVE |-> R(1, 5),
     PERIOD_REC_BUY |-> "BUY",
     PERIOD_REC_HOLD |-> "HOLD",
     PERIOD_REC_SELL |-> "SELL",
     CONSENSUS_BUY_COUNT_STRONG |-> 3,
     CONSENSUS_BUY_COUNT_MODERATE |-> 2,
     CONSENSUS_SELL_COUNT_STRONG |-> 3,
     CONSENSUS_SELL_COUNT_MODERATE |-> 2,
     CONSENSUS_SCORE_STRONG_BUY |-> R(3, 4),
     CONSENSUS_SCORE_BUY |-> R(13, 20),
     CONSENSUS_SCORE_STRONG_SELL |-> R(1, 4),
     CONSENSUS_SCORE_SELL |-> R(7, 20)]

\* 43-50: what ticker.history(period) does: it raises, or it hands over a
\* frame, empty or with closing prices that give the period's change in
\* percent
HistoryOutcomes ==
    {[raises |-> TRUE, empty |-> FALSE, change |-> RZero],
     [raises |-> FALSE, empty |-> TRUE, change |-> RZero]}
    \cup {[raises |-> FALSE, empty |-> FALSE, change |-> c] :
              c \in {R(12, 1), R(2, 1), R(0 - 12, 1)}}

\* 53-71: the score and the recommendation of a period's change
PeriodScore(period_change) ==
    IF RLt(PeriodConstants.PERIOD_CHANGE_STRONG_POSITIVE, period_change)
    THEN [score |-> PeriodConstants.PERIOD_SCORE_STRONG_POSITIVE, rec |-> PeriodConstants.PERIOD_REC_BUY]
    ELSE IF RLt(PeriodConstants.PERIOD_CHANGE_POSITIVE, period_change)
    THEN [score |-> PeriodConstants.PERIOD_SCORE_POSITIVE, rec |-> PeriodConstants.PERIOD_REC_BUY]
    ELSE IF RLt(RZero, period_change)
    THEN [score |-> PeriodConstants.PERIOD_SCORE_SLIGHTLY_POSITIVE, rec |-> PeriodConstants.PERIOD_REC_HOLD]
    ELSE IF RLt(PeriodConstants.PERIOD_CHANGE_NEGATIVE, period_change)
    THEN [score |-> PeriodConstants.PERIOD_SCORE_SLIGHTLY_NEGATIVE, rec |-> PeriodConstants.PERIOD_REC_HOLD]
    ELSE IF RLt(PeriodConstants.PERIOD_CHANGE_STRONG_NEGATIVE, period_change)
    THEN [score |-> PeriodConstants.PERIOD_SCORE_NEGATIVE, rec |-> PeriodConstants.PERIOD_REC_SELL]
    ELSE [score |-> PeriodConstants.PERIOD_SCORE_STRONG_NEGATIVE, rec |-> PeriodConstants.PERIOD_REC_SELL]

\* 86, 115: the error clauses
PeriodErrorClause(name) == "Error analyzing " \o name \o ": no data"
AnalysisErrorClause == "Error in period-based analysis: no ticker"

\* 93-95: the recommendations holding the given word
CountRec(recs, rec) == Cardinality({k \in 1 .. Len(recs) : recs[k].rec = rec})

PInit ==
    /\ p_pc = "start"
    /\ p_idx = 0
    /\ p_score = DEFAULT_SCORE
    /\ p_confidence = PERIOD_BASED_CONFIDENCE
    /\ p_reasons = <<>>
    /\ period_recommendations = <<>>
    /\ p_total_weight = RZero
    /\ p_weighted_score = RZero
    /\ p_failures = {}
    /\ p_result = None

PIdle ==
    /\ p_pc = "idle"
    /\ p_idx = 0
    /\ p_score = DEFAULT_SCORE
    /\ p_confidence = PERIOD_BASED_CONFIDENCE
    /\ p_reasons = <<>>
    /\ period_recommendations = <<>>
    /\ p_total_weight = RZero
    /\ p_weighted_score = RZero
    /\ p_failures = {}
    /\ p_result = None

\* 28-39, 114-116: the locals are set and the ticker is made; a failure there
\* is caught by the outer handler
PeriodBegin ==
    /\ p_pc = "start"
    /\ \E raises \in BOOLEAN :
        IF raises
        THEN /\ p_reasons' = Append(p_reasons, AnalysisErrorClause)
             /\ p_confidence' = PERIOD_BASED_CONFIDENCE_ERROR
             /\ p_failures' = p_failures \cup {"ticker"}
             /\ p_pc' = "normalize"
             /\ p_idx' = p_idx
        ELSE /\ p_pc' = "periods"
             /\ p_idx' = 1
             /\ UNCHANGED <<p_reasons, p_confidence, p_failures>>
    /\ UNCHANGED <<p_score, period_recommendations, p_total_weight,
                   p_weighted_score, p_result>>
    /\ UNCHANGED <<cvars, lvars, nvars, rvars>>

\* 41-86: one period: its history is fetched and scored; a failure is caught
\* by the inner handler, which appends an error clause
PeriodHistory ==
    /\ p_pc = "periods"
    /\ \E hist \in HistoryOutcomes :
        LET period_info == PeriodConstants.PERIODS_CONFIG[p_idx]
        IN  IF hist.raises
            THEN /\ p_reasons' = Append(p_reasons, PeriodErrorClause(period_info.name))
                 /\ p_failures' = p_failures \cup {period_info.name}
                 /\ UNCHANGED <<period_recommendations, p_total_weight,
                                p_weighted_score, p_confidence>>
            ELSE IF hist.empty
            THEN UNCHANGED <<p_reasons, p_failures, period_recommendations,
                             p_total_weight, p_weighted_score, p_confidence>>
            ELSE LET ps == PeriodScore(hist.change)
                 IN  /\ p_weighted_score' =
                            RAdd(p_weighted_score, RMul(ps.score, period_info.weight))
                     /\ p_total_weight' = RAdd(p_total_weight, period_info.weight)
                     /\ period_recommendations' =
                            Append(period_recommendations,
                                   [name |-> period_info.name, rec |-> ps.rec])
                     /\ p_reasons' = Append(p_reasons, period_info.name \o ": change")
                     /\ UNCHANGED <<p_failures, p_confidence>>
    /\ p_idx' = p_idx + 1
    /\ p_pc' = IF p_idx = Len(PeriodConstants.PERIODS_CONFIG) THEN "consensus" ELSE "periods"
    /\ UNCHANGED <<p_score, p_result>>
    /\ UNCHANGED <<cvars, lvars, nvars, rvars>>

\* 88-112: the weighted average, the consensus rule and the summary
PeriodConsensus ==
    /\ p_pc = "consensus"
    /\ LET score == IF RLt(RZero, p_total_weight)
                    THEN RDiv(p_weighted_score, p_total_weight) ELSE p_score
           buy_count == CountRec(period_recommendations, PeriodConstants.PERIOD_REC_BUY)
           sell_count == CountRec(period_recommendations, PeriodConstants.PERIOD_REC_SELL)
           consensus ==
               IF buy_count >= PeriodConstants.CONSENSUS_BUY_COUNT_STRONG
               THEN [score |-> RMax(score, PeriodConstants.CONSENSUS_SCORE_STRONG_BUY),
                     reasons |-> <<"Strong buy consensus across periods">>]
               ELSE IF buy_count >= PeriodConstants.CONSENSUS_BUY_COUNT_MODERATE /\ sell_count = 0
               THEN [score |-> RMax(score, PeriodConstants.CONSENSUS_SCORE_BUY),
                     reasons |-> <<"Buy consensus">>]
               ELSE IF sell_count >= PeriodConstants.CONSENSUS_SELL_COUNT_STRONG
               THEN [score |-> RMin(score, PeriodConstants.CONSENSUS_SCORE_STRONG_SELL),
                     reasons |-> <<"Strong sell consensus">>]
               ELSE IF sell_count >= PeriodConstants.CONSENSUS_SELL_COUNT_MODERATE /\ buy_count = 0
               THEN [score |-> RMin(score, PeriodConstants.CONSENSUS_SCORE_SELL),
                     reasons |-> <<"Sell consensus">>]
               ELSE [score |-> score, reasons |-> <<>>]
           summary == IF period_recommendations # <<>>
                      THEN <<"Period Recommendations">> ELSE <<>>
       IN  /\ p_score' = consensus.score
           /\ p_reasons' = summary \o p_reasons \o consensus.reasons
    /\ p_pc' = "normalize"
    /\ UNCHANGED <<p_idx, p_confidence, period_recommendations, p_total_weight,
                   p_weighted_score, p_failures, p_result>>
    /\ UNCHANGED <<cvars, lvars, nvars, rvars>>

\* 118-128: the score is clamped and the result returned
PeriodReturn ==
    /\ p_pc = "normalize"
    /\ LET score == RMax(MIN_SCORE, RMin(MAX_SCORE, p_score))
       IN  /\ p_score' = score
           /\ p_result' =
                  [score |-> score,
                   reasoning |-> IF p_reasons # <<>> THEN Join(p_reasons, "; ")
                                 ELSE "No period-based indicators",
                   confidence |-> p_confidence,
                   recommendation_type |-> calculate_recommendation_type(score)]
    /\ p_pc' = "done"
    /\ UNCHANGED <<p_idx, p_confidence, p_reasons, period_recommendations,
                   p_total_weight, p_weighted_score, p_failures>>
    /\ UNCHANGED <<cvars, lvars, nvars, rvars>>

PNext == PeriodBegin \/ PeriodHistory \/ PeriodConsensus \/ PeriodReturn

\* ------------------------------------------------ a source that hangs
\* the sources whose call is given a timeout: requests.get with timeout=10
\* (152, 205, 320); ticker.news and feedparser.parse are given none
\* (42, 379, 459)
TimedSources == {"newsapi", "alphavantage", "related"}

\* 514-538: the call of a source that is given no timeout never returns
SourceHangs(k) ==
    /\ n_pc = ArticleSources[k]
    /\ Configured(ArticleSources[k], n_keys)
    /\ ArticleSources[k] \notin TimedSources
    /\ n_pc' = "hung"
    /\ UNCHANGED <<n_keys, n_related, n_clock, all_articles, n_failed, n_intact,
                   n_keywords, unique_articles, n_order, n_again>>
    /\ UNCHANGED <<cvars, lvars, rvars, pvars>>

NLiveNext == NNext \/ \E k \in 1 .. Len(ArticleSources) : SourceHangs(k)

\* ------------------------------------------------------ specifications
\* the LLM analyzer at rest, while the composite is examined
LIdle ==
    /\ l_keys = {}
    /\ l_provider = "auto"
    /\ l_articles = <<>>
    /\ l_pc = "idle"
    /\ providers = <<>>
    /\ l_idx = 0
    /\ successful_results = <<>>
    /\ successful_providers = <<>>
    /\ l_answers = <<>>
    /\ l_calls = <<>>
    /\ l_result = None

\* the news fetcher at rest
NIdle ==
    /\ n_keys = {}
    /\ n_related = FALSE
    /\ n_pc = "idle"
    /\ n_clock = FetchTime
    /\ all_articles = <<>>
    /\ n_failed = {}
    /\ n_intact = <<>>
    /\ n_keywords = {}
    /\ unique_articles = <<>>
    /\ n_order = <<>>
    /\ n_again = <<>>

InitComposite == CInit(Outcomes) /\ LIdle /\ NIdle /\ RIdle /\ PIdle
SpecComposite == InitComposite /\ [][CNext]_vars

ReweighNext ==
    \/ AnalyzeNoAnalyzers
    \/ AnalyzeBegin
    \/ RunAnalyzer
    \/ AnalyzeFinish
    \/ \E k \in 1 .. MaxAnalyzers : DoubleWeight(k)

InitReweigh == CInit(Returning) /\ LIdle /\ NIdle /\ RIdle /\ PIdle
SpecReweigh == InitReweigh /\ [][ReweighNext]_vars

\* the composite at rest, while the LLM analyzer is examined
CIdle ==
    /\ analyzers = <<>>
    /\ c_pc = "idle"
    /\ c_idx = 0
    /\ weighted_score = RZero
    /\ weighted_confidence = RZero
    /\ total_weight = RZero
    /\ all_reasons = <<>>
    /\ c_all_articles = <<>>
    /\ c_result = None
    /\ c_prev = None
    /\ c_doubled = 0

InitLLM == LInit /\ CIdle /\ NIdle /\ RIdle /\ PIdle
SpecLLM == InitLLM /\ [][LNext]_vars

\* the chain with no key, one key or two keys, over every article list of
\* up to MaxArticles articles
InitFallback ==
    LStart({{}, {"gemini"}, {"groq", "openai"}}, {"auto"}, ArticleLists(MaxArticles))
    /\ CIdle
    /\ NIdle
    /\ RIdle
    /\ PIdle
SpecFallback == InitFallback /\ [][LNext]_vars

InitNews == NInit /\ CIdle /\ LIdle /\ RIdle /\ PIdle

\* composites whose analyzers hand over articles
InitArticles == CStart(ArticleConfigs) /\ LIdle /\ NIdle /\ RIdle /\ PIdle
SpecArticles == InitArticles /\ [][CNext]_vars
SpecNews == InitNews /\ [][NNext]_vars

\* the fetcher with sources that may hang; a call that returns is followed
\* by the next statement
SpecNewsLive == InitNews /\ [][NLiveNext]_vars /\ WF_vars(NNext)

\* create_recommendation on the result of an analyzer of either kind
InitRecommend == RInit /\ CIdle /\ LIdle /\ NIdle /\ PIdle
SpecRecommend == InitRecommend /\ [][RNext]_vars

\* the period-based analyzer over every outcome of its history fetches
InitPeriod == PInit /\ CIdle /\ LIdle /\ NIdle /\ RIdle
SpecPeriod == InitPeriod /\ [][PNext]_vars

\* ------------------------------------------- claims on the composite
Idx == 1 .. Len(analyzers)
Raises(i) == analyzers[i].outcome.raises
\* every analyzer that returns does so with a numeric score and confidence
WellTyped ==
    \A i \in Idx : Raises(i) \/ (IsNum(analyzers[i].outcome.score)
                                 /\ IsNum(analyzers[i].outcome.confidence))
CDone == c_pc = "done"

\* C1: analyze returns score and confidence in [0,1] for every configuration
\* of analyzers and weights (zero and negative weights included), given that
\* each returning analyzer's score and confidence are in [0,1].
C1_ScoreAndConfidenceInUnit ==
    (CDone /\ WellTyped) =>
        (InUnit(c_result.score) /\ InUnit(c_result.confidence))

\* the sums of the fold as C2 states it: over all analyzers, a raising one
\* at the neutral defaults
AllScoreTerms ==
    [i \in Idx |-> RMul(IF Raises(i) THEN COMPOSITE_DEFAULT_SCORE
                        ELSE analyzers[i].outcome.score, analyzers[i].weight)]
AllConfidenceTerms ==
    [i \in Idx |-> RMul(IF Raises(i) THEN COMPOSITE_DEFAULT_CONFIDENCE
                        ELSE analyzers[i].outcome.confidence, analyzers[i].weight)]
AllWeights == [i \in Idx |-> analyzers[i].weight]
\* the sums over the analyzers that returned
ReturnedScoreTerms ==
    [i \in Idx |-> IF Raises(i) THEN RZero
                   ELSE RMul(analyzers[i].outcome.score, analyzers[i].weight)]
ReturnedConfidenceTerms ==
    [i \in Idx |-> IF Raises(i) THEN RZero
                   ELSE RMul(analyzers[i].outcome.confidence, analyzers[i].weight)]
ReturnedWeights == [i \in Idx |-> IF Raises(i) THEN RZero ELSE analyzers[i].weight]
ErrorSegments ==
    \A i \in Idx : Raises(i) =>
        all_reasons[i] = AnalyzerName(i) \o ": Error - " \o analyzers[i].outcome.text

Dist(a, b) == RAbs(RSub(a, b))
NoCloserAfterDoubling ==
    RLe(Dist(c_result.score, analyzers[c_doubled].outcome.score),
        Dist(c_prev.score, analyzers[c_doubled].outcome.score))
Reweighed == c_pc = "done" /\ c_doubled # 0

LDone == l_pc = "done"
NSucceeded == Len(successful_providers)
Several == LDone /\ NSucceeded >= 2
Votes(field(_), label) == Cardinality({k \in 1 .. Len(l_answers) : field(l_answers[k]) = label})
SentimentOf(j) == j.sentiment
ImpactOf(j) == j.impact

\* C4: analyze_sentiment_llm always returns a result and never raises, for
\* every article list and every combination of provider outcomes.
C4_NeverRaises == l_pc # "raised"

\* s is a subsequence of t
RECURSIVE IsSubsequence(_, _)
IsSubsequence(s, t) ==
    IF s = <<>> THEN TRUE
    ELSE IF t = <<>> THEN FALSE
    ELSE IF Head(s) = Head(t) THEN IsSubsequence(Tail(s), Tail(t))
    ELSE IsSubsequence(s, Tail(t))

RECURSIVE PlusJoined(_)
PlusJoined(names) ==
    IF Len(names) = 1 THEN names[1]
    ELSE names[1] \o "+" \o PlusJoined(Tail(names))

\* C5: a returned result has method "keyword" exactly when no provider
\* attempt succeeded; otherwise its method is "llm-" followed by the names of
\* the providers that succeeded, joined with "+", in the order they were
\* attempted, and a single success is that provider's result otherwise
\* unchanged.
C5_MethodNamesSucceededProviders ==
    LDone =>
        /\ (l_result.method = "keyword") <=> (successful_providers = <<>>)
        /\ (l_keys = {} \/ l_articles = <<>>) => l_result.method = "keyword"
        /\ IsSubsequence(successful_providers, providers)
        /\ successful_providers # <<>> =>
               l_result.method = "llm-" \o PlusJoined(successful_providers)
        /\ NSucceeded = 1 =>
               /\ l_result.method = "llm-" \o successful_providers[1]
               /\ \A f \in DOMAIN l_result \ {"method"} :
                      l_result[f] = successful_results[1][f]

\* the named provider first, two successes, and a failed provider between
C5_Witness ==
    /\ LDone
    /\ l_provider = "huggingface"
    /\ Len(providers) = 3
    /\ successful_providers = <<"huggingface", "openai">>
    /\ l_result.method = "llm-huggingface+openai"

Mean(seq) == RDiv(RSum(seq), RInt(Len(seq)))
ReportedScoresOfSucceeded == [k \in 1 .. Len(l_answers) |-> l_answers[k].sentiment_score]
\* what a provider's reported score counts as: 1 - score under the label
\* "negative", within [0,1]
CountedScore(j) ==
    LET v == IF j.sentiment = "negative" THEN RSub(ROne, j.sentiment_score)
             ELSE j.sentiment_score
    IN  IF RLt(v, RZero) THEN RZero ELSE IF RLt(ROne, v) THEN ROne ELSE v

\* C6 as stated: with two or more successes the aggregated score is the mean
\* of the scores the providers reported, whatever labels they reported.
C6_Original_MeanOfReported ==
    Several => l_result.sentiment_score = Mean(ReportedScoresOfSucceeded)

\* C6 amended: it is the mean of the providers' parsed scores: a provider
\* that reported the label "negative" counts with 1 - its reported score,
\* every other provider with its reported score.
C6_MeanOfParsedScores ==
    Several =>
        l_result.sentiment_score =
            Mean([k \in 1 .. Len(l_answers) |-> CountedScore(l_answers[k])])

\* two successes, one of them reporting "negative"
C6_Witness ==
    /\ Several
    /\ NSucceeded = 2
    /\ l_answers[1].sentiment = "positive" /\ l_answers[1].sentiment_score = R(7, 10)
    /\ l_answers[2].sentiment = "negative" /\ l_answers[2].sentiment_score = R(7, 10)
    /\ l_result.sentiment_score = RHalf

MeanParsed == Mean([k \in 1 .. Len(successful_results) |-> successful_results[k].sentiment_score])
ByMeanScore ==
    IF RLt(R(3, 5), MeanParsed) THEN "positive"
    ELSE IF RLt(MeanParsed, R(2, 5)) THEN "negative" ELSE "neutral"
StrictlyMost(field(_), label, labels) ==
    \A other \in labels \ {label} : Votes(field, label) > Votes(field, other)

\* C7: with two or more successes the sentiment is the label with strictly
\* more votes than each of the other two (neutral included); only when the
\* top count is tied does the mean score decide.
C7_MajorityVote ==
    Several =>
        IF \E l \in Sentiments : StrictlyMost(SentimentOf, l, Sentiments)
        THEN StrictlyMost(SentimentOf, l_result.sentiment, Sentiments)
        ELSE l_result.sentiment = ByMeanScore

\* C8: with two or more successes the impact is the label with strictly more
\* votes than each of the others, and neutral whenever the top count is
\* tied; the mean score plays no part.
C8_ImpactByVote ==
    Several =>
        IF \E l \in Impacts : StrictlyMost(ImpactOf, l, Impacts)
        THEN StrictlyMost(ImpactOf, l_result.impact, Impacts)
        ELSE l_result.impact = "neutral"

\* bullish and bearish tied at the top while the mean score is high
C8_Witness ==
    /\ Several
    /\ Votes(ImpactOf, "bullish") = 1 /\ Votes(ImpactOf, "bearish") = 1
    /\ Votes(ImpactOf, "neutral") = 0
    /\ RLt(R(3, 5), MeanParsed)
    /\ l_result.impact = "neutral"

\* bullish ahead of both other labels
C8_WitnessMajority ==
    /\ Several
    /\ Votes(ImpactOf, "bullish") = 2 /\ Votes(ImpactOf, "bearish") = 1
    /\ l_result.impact = "bullish"

NoDuplicates(seq) == \A a, b \in 1 .. Len(seq) : seq[a] = seq[b] => a = b
\* the themes of all successful providers in first-seen order
RECURSIVE FirstSeen(_, _)
FirstSeen(seen, rest) ==
    IF rest = <<>> THEN seen
    ELSE FirstSeen(IF \E k \in 1 .. Len(seen) : seen[k] = Head(rest)
                   THEN seen ELSE Append(seen, Head(rest)), Tail(rest))
RECURSIVE AllThemes(_)
AllThemes(answers) ==
    IF answers = <<>> THEN <<>> ELSE Head(answers).themes \o AllThemes(Tail(answers))

\* C9: every returned result has a themes list without duplicates and of at
\* most 10 entries, from the keyword fallback, from one provider or from
\* several; with several it is the union of their themes in first-seen
\* order, cut to 10.
C9_ThemesUniqueAtMostTen ==
    LDone =>
        /\ NoDuplicates(l_result.themes)
        /\ Len(l_result.themes) <= 10
        /\ NSucceeded >= 2 =>
               LET u == FirstSeen(<<>>, AllThemes(l_answers))
               IN  l_result.themes = SubSeq(u, 1, IF Len(u) < 10 THEN Len(u) ELSE 10)

\* the largest number of successful providers reporting one label
Agreeing ==
    LET counts == {Votes(SentimentOf, l_answers[k].sentiment) : k \in 1 .. Len(l_answers)}
    IN  CHOOSE c \in counts : \A d \in counts : d <= c

\* C10: with two or more successes the confidence is the mean of the
\* providers' confidences plus a fixed increment for each additional agreeing
\* provider, at most 1.0; a provider whose sentiment disagrees with the
\* others adds no boost.
C10_BoostPerAgreeingProvider ==
    Several =>
        l_result.confidence =
            RMin(ROne,
                 RAdd(Mean([k \in 1 .. Len(successful_results) |->
                              successful_results[k].confidence]),
                      RMul(R(1, 20), RInt(Agreeing - 1))))

\* the non-empty summaries of the successful providers
Summaries ==
    SelectSeq([k \in 1 .. Len(successful_results) |-> successful_results[k].summary],
              LAMBDA x : x # "")

\* C11: with two or more successes, of which at least one gave a summary,
\* the aggregated summary is a longest provider summary followed by the
\* consensus annotation naming the number of providers, also when only one
\* provider gave a summary.
C11_LongestWithConsensus ==
    (Several /\ Summaries # <<>>) =>
        \E k \in 1 .. Len(Summaries) :
            /\ \A m \in 1 .. Len(Summaries) : Len(Summaries[m]) <= Len(Summaries[k])
            /\ l_result.summary =
                   Summaries[k] \o " (Consensus from " \o IntToStr(NSucceeded)
                   \o " LLM providers)"

\* C12: every returned result has a sentiment among positive, negative,
\* neutral, an impact among bullish, bearish, neutral, and a score and a
\* confidence in [0,1].
C12_ResultFieldsInRange ==
    LDone =>
        /\ l_result.sentiment \in Sentiments
        /\ l_result.impact \in Impacts
        /\ InUnit(l_result.sentiment_score)
        /\ InUnit(l_result.confidence)

PositiveCount == Cardinality({k \in 1 .. Len(l_articles) : l_articles[k].pos})
NegativeCount == Cardinality({k \in 1 .. Len(l_articles) : l_articles[k].neg})
Exceeds(a, b) == RLt(RMul(RInt(b), NEWS_SENTIMENT_MULTIPLIER), RInt(a))
KeywordResult == LDone /\ l_result.method = "keyword"

\* C13: the keyword fallback is positive exactly when the positive count
\* exceeds the negative count times the multiplier, with score
\* 0.5 + positive/total * 0.3; negative exactly when otherwise the negative
\* count exceeds the positive count times the multiplier, with score
\* 0.5 - negative/total * 0.3; neutral with score 0.5 in every other case.
\* Three articles of which two hold a positive and none a negative keyword
\* give positive with score 0.7.
C13_KeywordClassification ==
    KeywordResult =>
        LET total == Len(l_articles)
            pos == Exceeds(PositiveCount, NegativeCount)
            neg == ~pos /\ Exceeds(NegativeCount, PositiveCount)
        IN  /\ (l_result.sentiment = "positive") <=> pos
            /\ (l_result.sentiment = "negative") <=> neg
            /\ (l_result.sentiment = "neutral") <=> (~pos /\ ~neg)
            /\ pos => l_result.sentiment_score =
                          RAdd(RHalf, RMul(R(PositiveCount, total), R(3, 10)))
            /\ neg => l_result.sentiment_score =
                          RSub(RHalf, RMul(R(NegativeCount, total), R(3, 10)))
            /\ (~pos /\ ~neg) => l_result.sentiment_score = RHalf
            /\ (total = 3 /\ PositiveCount = 2 /\ NegativeCount = 0) =>
                   /\ l_result.sentiment = "positive"
                   /\ l_result.sentiment_score = R(7, 10)

\* two of three articles positive, none negative, after a failed provider
C13_Witness ==
    /\ KeywordResult
    /\ l_keys # {}
    /\ Len(l_articles) = 3 /\ PositiveCount = 2 /\ NegativeCount = 0
    /\ l_result.sentiment = "positive"
    /\ l_result.sentiment_score = R(7, 10)

\* C14: for an empty article list, whatever providers are configured, no
\* provider is called and the result is neutral, score 0.5, impact neutral,
\* method keyword, confidence 0.3; no fallback result has a lower confidence.
C14_EmptyArticleList ==
    /\ (LDone /\ l_articles = <<>>) =>
           /\ providers = <<>> /\ l_idx = 0 /\ l_answers = <<>>
           /\ l_result.sentiment = "neutral"
           /\ l_result.sentiment_score = RHalf
           /\ l_result.impact = "neutral"
           /\ l_result.method = "keyword"
           /\ l_result.confidence = R(3, 10)
    /\ KeywordResult => RLe(R(3, 10), l_result.confidence)

\* no articles while two providers are configured
C14_Witness ==
    /\ LDone
    /\ l_articles = <<>>
    /\ l_keys = {"groq", "openai"}
    /\ l_result.confidence = R(3, 10)

\* ------------------------------------------------- claims on the fetcher
NReturned == n_pc \in {"done", "again"}
Fetched(title) == \E k \in 1 .. Len(all_articles) : all_articles[k].title = title
Kept(title) == \E k \in 1 .. Len(unique_articles) : unique_articles[k].title = title

\* C15: of two fetched articles titled "Apple beats earnings expectations"
\* and "Apple beats earnings expectations today" only the first is kept,
\* while "Apple beats earnings" and "Tesla misses earnings" are both kept.
C15_SimilarTitlesAreDuplicates ==
    NReturned =>
        /\ (Fetched(AppleBeatsExpectations) /\ Fetched(AppleBeatsExpectationsToday)) =>
               ~(Kept(AppleBeatsExpectations) /\ Kept(AppleBeatsExpectationsToday))
        /\ (Fetched(AppleBeats) /\ Fetched(TeslaMisses)) =>
               (Kept(AppleBeats) /\ Kept(TeslaMisses))

\* C16: the dedup pass applied to the returned list, in the returned order or
\* in any other, keeps every article and drops none.
C16_DedupIdempotent == (n_pc = "again") => (n_again = n_order)

\* three articles kept out of more and handed over in another order
C16_Witness ==
    /\ n_pc = "again"
    /\ Len(unique_articles) >= 3
    /\ Len(all_articles) > Len(unique_articles)
    /\ n_order # unique_articles
    /\ n_again = n_order

\* C17: whichever sources fail or are unconfigured, the call returns
\* normally and its result is the dedup of the concatenation of what the
\* other sources returned, a failed source contributing an empty list.
C17_ToleratesSourceFailure ==
    /\ n_pc # "raised"
    /\ NReturned => unique_articles = SortNewestFirst(Dedup(n_intact))

\* C18: the call returns the kept articles newest first, each published date
\* being at least that of the article after it, whatever mix of naive,
\* offset-carrying and defaulted dates the sources produce.
C18_NewestFirst ==
    /\ n_pc # "raised"
    /\ NReturned =>
           \A k \in 1 .. Len(unique_articles) - 1 :
               unique_articles[k].published_date.t
                   >= unique_articles[k + 1].published_date.t

\* ------------------------------------- claims on reasoning and the tiers
\* the segment the claim gives analyzer i
ClaimedSegment(i) ==
    IF Raises(i)
    THEN AnalyzerName(i) \o ": Error - " \o analyzers[i].outcome.text
    ELSE AnalyzerName(i) \o ": " \o analyzers[i].outcome.text

RECURSIVE SegmentsJoined(_)
SegmentsJoined(n) ==
    IF n = 1 THEN ClaimedSegment(1)
    ELSE SegmentsJoined(n - 1) \o " | " \o ClaimedSegment(n)

\* C19: the reasoning of a composite with analyzers is one segment per
\* configured analyzer, in registration order, joined with " | ": every
\* analyzer is run once whatever the analyzers before it did, a returning
\* analyzer contributes "<name>: <reasoning>", a raising one
\* "<name>: Error - <message>".
C19_OneSegmentPerAnalyzer ==
    (CDone /\ analyzers # <<>>) =>
        /\ Len(all_reasons) = Len(analyzers)
        /\ c_idx = Len(analyzers) + 1
        /\ WellTyped => c_result.reasoning = SegmentsJoined(Len(analyzers))

\* a raising analyzer before a returning one
C19_Witness ==
    /\ CDone /\ WellTyped
    /\ Len(analyzers) = 2
    /\ Raises(1) /\ ~Raises(2)
    /\ c_result.reasoning =
           "Price Analysis: Error - boom | Volume Analysis: ok"

RecommendationTypes == <<STRONG_SELL, SELL, HOLD, BUY, STRONG_BUY>>
Rank(type) == CHOOSE k \in 1 .. Len(RecommendationTypes) : RecommendationTypes[k] = type

\* C20: every score in [0,1] is mapped to exactly one of the five tiers, a
\* higher score never to a lower tier in the order STRONG_SELL < SELL < HOLD
\* < BUY < STRONG_BUY, and the recommendation_type a composite with
\* analyzers returns is the mapping of its final score.
C20_TiersMonotone ==
    /\ (CDone /\ analyzers # <<>>) =>
           /\ \E k \in 1 .. Len(RecommendationTypes) :
                  c_result.recommendation_type = RecommendationTypes[k]
           /\ c_result.recommendation_type =
                  calculate_recommendation_type(c_result.score)
    /\ (Reweighed /\ InUnit(c_prev.score) /\ InUnit(c_result.score)) =>
           /\ RLe(c_prev.score, c_result.score) =>
                  Rank(c_prev.recommendation_type) <= Rank(c_result.recommendation_type)
           /\ RLe(c_result.score, c_prev.score) =>
                  Rank(c_result.recommendation_type) <= Rank(c_prev.recommendation_type)

\* a score in [0,1] raised by the reweighting from one tier into a higher one
C20_Witness ==
    /\ Reweighed
    /\ InUnit(c_prev.score) /\ InUnit(c_result.score)
    /\ RLt(c_prev.score, c_result.score)
    /\ c_prev.recommendation_type = HOLD
    /\ Rank(c_prev.recommendation_type) < Rank(c_result.recommendation_type)

\* ------------------------------------- claims on the composite's articles
RECURSIVE FlattenArticles(_)
FlattenArticles(n) ==
    IF n = 0 THEN <<>>
    ELSE FlattenArticles(n - 1)
         \o (IF Raises(n) THEN <<>> ELSE analyzers[n].outcome.articles)

\* the articles of seq that no earlier article of seq shares its key with
RECURSIVE FirstOccurrences(_, _, _)
FirstOccurrences(key(_), seq, n) ==
    IF n = 0 THEN <<>>
    ELSE FirstOccurrences(key, seq, n - 1)
         \o (IF \E j \in 1 .. n - 1 : key(seq[j]) = key(seq[n]) THEN <<>> ELSE <<seq[n]>>)

\* the key as the claim words it: the summary's first 50 characters as they are
StatedKey(article) ==
    IF Strip(article.title) # <<>> THEN Strip(Lower(article.title))
    ELSE IF Strip(article.url) # <<>> THEN Strip(Lower(article.url))
    ELSE article.source \o <<"_">> \o Slice(article.summary, 50)

WithAnalyzers == CDone /\ analyzers # <<>>

\* C29 as stated: the returned articles are the returning analyzers' articles
\* in analyzer order, reduced to the first article of each key, the key being
\* the lower-cased stripped title, else the lower-cased stripped url, else
\* source + "_" + the first 50 characters of the summary; the dedup applied
\* to its own output changes nothing.
C29_Original_SummaryAsIs ==
    WithAnalyzers =>
        /\ c_result.articles =
               FirstOccurrences(StatedKey, FlattenArticles(Len(analyzers)),
                                Len(FlattenArticles(Len(analyzers))))
        /\ DedupByKey(c_result.articles) = c_result.articles

\* C29 amended: the same, the third key being source + "_" + the lower-cased,
\* stripped first 50 characters of the summary.
C29_FirstOfEachKey ==
    WithAnalyzers =>
        /\ c_result.articles =
               FirstOccurrences(ArticleKey, FlattenArticles(Len(analyzers)),
                                Len(FlattenArticles(Len(analyzers))))
        /\ \A j, k \in 1 .. Len(c_result.articles) :
               j # k => ArticleKey(c_result.articles[j]) # ArticleKey(c_result.articles[k])
        /\ DedupByKey(c_result.articles) = c_result.articles

\* a url that collides with an earlier title, and two summaries that differ
\* in case only
C29_Witness ==
    /\ WithAnalyzers
    /\ FlattenArticles(Len(analyzers)) = <<TitledUpSpaced, UrlUp, SummaryGain>>
       \/ FlattenArticles(Len(analyzers)) = <<SummaryGain, SummaryGainLower, TitledUp>>
    /\ Len(c_result.articles) = 2

Complete(i) ==
    /\ ~Raises(i)
    /\ IsNum(analyzers[i].outcome.score)
    /\ IsNum(analyzers[i].outcome.confidence)

RECURSIVE ArticlesOfComplete(_)
ArticlesOfComplete(n) ==
    IF n = 0 THEN <<>>
    ELSE ArticlesOfComplete(n - 1)
         \o (IF Complete(n) THEN analyzers[n].outcome.articles ELSE <<>>)

\* C30: an analyzer's contribution is all or nothing: the score numerator,
\* the confidence numerator, the total weight and the article list hold the
\* terms of exactly the analyzers whose result was processed to the end, and
\* nothing of an analyzer whose processing raised partway.
C30_AllOrNothing ==
    WithAnalyzers =>
        /\ weighted_score =
               RSum([i \in Idx |-> IF Complete(i)
                                   THEN RMul(analyzers[i].outcome.score, analyzers[i].weight)
                                   ELSE RZero])
        /\ weighted_confidence =
               RSum([i \in Idx |-> IF Complete(i)
                                   THEN RMul(analyzers[i].outcome.confidence,
                                             analyzers[i].weight)
                                   ELSE RZero])
        /\ total_weight =
               RSum([i \in Idx |-> IF Complete(i) THEN analyzers[i].weight ELSE RZero])
        /\ c_all_articles = ArticlesOfComplete(Len(analyzers))

\* ------------------------------------------- claims on the provider chain
LEnded == l_pc \in {"done", "raised"}
Invocations(p) == Cardinality({k \in 1 .. Len(l_calls) : l_calls[k] = p})

\* C25: in a call with articles and at least one configured provider the
\* try-method of each configured provider is invoked exactly once, after a
\* success as well as after a failure, and no unconfigured provider is
\* invoked.
C25_EachConfiguredProviderOnce ==
    (LEnded /\ l_articles # <<>> /\ l_keys # {}) =>
        \A p \in {"gemini", "groq", "huggingface", "openai"} :
            Invocations(p) = IF p \in l_keys THEN 1 ELSE 0

\* a success, then a failure, then a success, the fourth provider unconfigured
C25_Witness ==
    /\ LDone
    /\ l_keys = {"gemini", "groq", "openai"}
    /\ l_calls = <<"gemini", "groq", "openai">>
    /\ successful_providers = <<"gemini", "openai">>

FixedOrder == <<"gemini", "groq", "huggingface", "openai">>

\* C26: in "auto" mode the configured providers are attempted in the order
\* gemini, groq, huggingface, openai; with a named provider that one, if
\* configured, is attempted first and the other configured providers follow
\* in the same order, also when the named one is unconfigured or unknown.
C26_AttemptOrder ==
    (LEnded /\ l_articles # <<>> /\ l_keys # {}) =>
        l_calls =
            IF l_provider = "auto"
            THEN SelectSeq(FixedOrder, LAMBDA p : p \in l_keys)
            ELSE (IF l_provider \in l_keys THEN <<l_provider>> ELSE <<>>)
                 \o SelectSeq(FixedOrder, LAMBDA p : p \in l_keys /\ p # l_provider)

\* the named provider ahead of two that precede it in the fixed order
C26_Witness ==
    /\ LDone
    /\ l_provider = "huggingface"
    /\ l_calls = <<"huggingface", "gemini", "groq", "openai">>

\* an unknown provider named: the configured ones are attempted
C26_WitnessUnknown ==
    /\ LDone
    /\ l_provider = "claude"
    /\ l_calls = <<"groq", "openai">>

\* C27: in the keyword fallback an article counts toward at most one of the
\* two counts, so the positive and the negative count the result reports
\* never add up to more than the number of articles.
C27_CountsAtMostArticles ==
    KeywordResult /\ l_articles # <<>> =>
        \E p, n \in 0 .. Len(l_articles) :
            /\ p + n <= Len(l_articles)
            /\ l_result.summary =
                   "Keyword analysis: " \o IntToStr(p) \o " positive, "
                   \o IntToStr(n) \o " negative articles"

\* ------------------------------------------------- claims on the dedup pass
TitleAt(i) == TitleLower(all_articles[i].title)
Alike(title1, title2) == RLt(R(4, 5), Similarity(title1, title2))
Positions == 1 .. Len(all_articles)
\* the positions of the concatenation that the pass keeps
RECURSIVE KeptFrom(_, _, _)
KeptFrom(i, kept, seen_titles) ==
    IF i > Len(all_articles) THEN kept
    ELSE IF IsDuplicate(TitleAt(i), seen_titles)
    THEN KeptFrom(i + 1, kept, seen_titles)
    ELSE KeptFrom(i + 1, kept \cup {i}, seen_titles \cup {TitleAt(i)})
KeptPositions == KeptFrom(1, {}, {})
Occurrences(seq, x) == Cardinality({k \in 1 .. Len(seq) : seq[k] = x})
\* the returned list holds the articles of the kept positions and no other
ReturnedAreKept(kept) ==
    /\ Len(unique_articles) = Cardinality(kept)
    /\ \A i \in kept :
           Occurrences(unique_articles, all_articles[i]) =
               Cardinality({j \in kept : all_articles[j] = all_articles[i]})
NoTwoKeptAlike ==
    \A i, j \in 1 .. Len(unique_articles) :
        i # j => ~Alike(TitleLower(unique_articles[i].title),
                        TitleLower(unique_articles[j].title))
DroppedHaveKeptPredecessor(kept) ==
    \A i \in Positions \ kept :
        \E j \in kept : j < i /\ Alike(TitleAt(i), TitleAt(j))

\* C28 as stated: no two kept articles are more than 0.8 similar, every
\* dropped article is more than 0.8 similar to a kept article before it, and
\* of any two articles more than 0.8 similar the later is never the kept one.
C28_Original_FirstOfGroupKept ==
    NReturned =>
        LET kept == KeptPositions
        IN  /\ ReturnedAreKept(kept)
            /\ NoTwoKeptAlike
            /\ DroppedHaveKeptPredecessor(kept)
            /\ \A j \in kept : \A i \in 1 .. j - 1 : ~Alike(TitleAt(i), TitleAt(j))

\* C28: after the dedup pass no two kept articles are more than 0.8 similar,
\* every dropped article is more than 0.8 similar to a kept article before
\* it, and an article is kept whenever no kept article before it is more
\* than 0.8 similar to it, also when a dropped article before it is.
C28_KeptIffNoKeptPredecessorAlike ==
    NReturned =>
        LET kept == KeptPositions
        IN  /\ ReturnedAreKept(kept)
            /\ NoTwoKeptAlike
            /\ DroppedHaveKeptPredecessor(kept)
            /\ \A i \in Positions :
                   (\A j \in kept : j < i => ~Alike(TitleAt(i), TitleAt(j)))
                       => i \in kept

\* a chain: the second is dropped for the first, the third is kept although
\* it is more than 0.8 similar to the dropped second
C28_Witness ==
    /\ NReturned
    /\ LET kept == KeptPositions
       IN  \E i, k \in kept : \E j \in Positions \ kept :
               /\ i < j /\ j < k
               /\ Alike(TitleAt(i), TitleAt(j))
               /\ Alike(TitleAt(j), TitleAt(k))
               /\ ~Alike(TitleAt(i), TitleAt(k))

\* ------------------------------------------ claims on create_recommendation
RDone == r_pc = "done"
Given(key) == key \in DOMAIN analysis_result

\* C21: the recommendation's type is the analysis result's
\* recommendation_type when present and otherwise the one derived from its
\* score; target_price is current_price * TARGET_PRICE_MULTIPLIER exactly
\* when that type is BUY or STRONG BUY and None for HOLD, SELL and STRONG
\* SELL; confidence and articles are passed through unchanged.
C21_TargetPriceForBuyTiers ==
    RDone =>
        /\ recommendation.recommendation_type =
               IF Given("recommendation_type") THEN analysis_result["recommendation_type"]
               ELSE IF Given("score")
               THEN calculate_recommendation_type(analysis_result["score"])
               ELSE calculate_recommendation_type(DEFAULT_SCORE)
        /\ recommendation.recommendation_type \in {"BUY", "STRONG BUY"} =>
               recommendation.target_price = RMul(r_price, TARGET_PRICE_MULTIPLIER)
        /\ recommendation.recommendation_type \in {"HOLD", "SELL", "STRONG SELL"} =>
               recommendation.target_price = None
        /\ Given("confidence") =>
               recommendation.confidence_score = analysis_result["confidence"]
        /\ Given("articles") => recommendation.articles = analysis_result["articles"]

\* a result whose type BUY overrides the STRONG SELL its score gives, with
\* an article
C21_Witness ==
    /\ RDone
    /\ Given("recommendation_type") /\ Given("score") /\ Given("articles")
    /\ analysis_result["recommendation_type"] = "BUY"
    /\ analysis_result["score"] = R(1, 10)
    /\ analysis_result["articles"] # <<>>
    /\ recommendation.target_price = RMul(r_price, TARGET_PRICE_MULTIPLIER)

\* C22: the reasoning of the recommendation is prefixed with "[name] " for
\* every individual analyzer and left as it is for every CompositeAnalyzer,
\* whatever name either was constructed with.
C22_PrefixUnlessComposite ==
    RDone =>
        LET reasoning == IF Given("reasoning") THEN analysis_result["reasoning"]
                         ELSE DEFAULT_REASONING
        IN  recommendation.reasoning =
                IF r_composite THEN reasoning
                ELSE "[" \o r_name \o "] " \o reasoning

\* -------------------------------------- claims on the period-based analyzer
\* C23: when an upstream call of the period-based analyzer failed, the ticker
\* or one or all of the per-period history fetches, analyze returns a result
\* whose reasoning holds an error clause, whose score lies in
\* [MIN_SCORE, MAX_SCORE] and whose confidence is the error confidence.
C23_FailureDegradesConfidence ==
    (p_pc = "done" /\ p_failures # {}) =>
        /\ \E k \in 1 .. Len(p_reasons) :
               p_reasons[k] \in {AnalysisErrorClause}
                                 \cup {PeriodErrorClause(PeriodConstants.PERIODS_CONFIG[i].name) :
                                          i \in 1 .. Len(PeriodConstants.PERIODS_CONFIG)}
        /\ RLe(MIN_SCORE, p_result.score) /\ RLe(p_result.score, MAX_SCORE)
        /\ p_result.confidence = PERIOD_BASED_CONFIDENCE_ERROR

\* ------------------------------------------------ claims on a hung source
\* C24: a source call that never completes does not block the others:
\* fetch_all_sources eventually returns.
C24_EventuallyReturns == <>(n_pc \in {"done", "raised"})

====
